---- MODULE Spec2Model ----
(***************************************************************************)
(* A model of python_awair: the HTTP query executor (client.py), the      *)
(* air-data request construction and response normalisation of the device *)
(* classes (devices.py, air_data.py) and the alias-normalising mapping     *)
(* behind Sensors and Indices (attrdict.py).                               *)
(*                                                                         *)
(* The specifications share the module, one per component:                 *)
(*   SpecQuery  AwairClient.query and its error classification             *)
(*   SpecAir    the air_data_* operations of a cloud or local device       *)
(*   SpecAttr   an AttrDict from construction through its mutations        *)
(*   SpecUser   AwairUser.devices                                          *)
(*   SpecFacade the package entry point of __init__.py and its operations  *)
(*   SpecLocal  the local facade's devices() over a list of addresses      *)
(* Spec is their interleaving over one state.                              *)
(***************************************************************************)
EXTENDS Integers, Sequences, FiniteSets, TLC

VARIABLES
    client,     \* AwairClient: _headers, _timeout, _session
    requests,   \* the GETs the latest operation issued, oldest first
    resp,       \* the response to the latest of them
    outcome,    \* how the latest operation's query() call ended
    airCall,    \* the latest air_data_* call: device, kind, kwargs, call time
    airResult,  \* how that call ended
    sent,       \* the URLs that call passed to client.query, oldest first
    mapping,    \* the entries of the AttrDict under observation
    lastOp,     \* the latest operation on that AttrDict and its arguments
    auth,       \* the AccessTokenAuth the client's token was taken from
    userResult, \* how the latest AwairUser.devices() call ended
    facade,     \* the construction of the package entry point (__init__.py)
    legacy,     \* the latest operation of that entry point: request and outcome
    localCall,    \* the latest devices() call of the local facade: addresses, phase
    localReplies, \* the replies to its queries, as <<index, reply>> in completion order
    localResult   \* how that call ended

vars == <<client, requests, resp, outcome, airCall, airResult, sent, mapping, lastOp,
          auth, userResult, facade, legacy, localCall, localReplies, localResult>>

queryVars == <<client, requests, resp, outcome>>
airVars == <<airCall, airResult, sent>>
attrVars == <<mapping, lastOp>>
authVars == <<auth>>
userVars == <<userResult>>
facadeVars == <<facade, legacy>>
localVars == <<localCall, localReplies, localResult>>

(***************************************************************************)
(* Bounds of the model.                                                    *)
(***************************************************************************)
MaxErrors == 2      \* entries of a response's "errors" array
MaxArgs == 2        \* keyword parameters of one air-data call
MaxRows == 2        \* rows of a response's "data" array
MaxKeys == 2        \* entries of the mapping given to the AttrDict constructor
MaxDevices == 3     \* entries of a response's "devices" array
MaxAddrs == 3       \* addresses given to the local facade

(***************************************************************************)
(* Python values.  A value carries its type; bool is a subclass of int,   *)
(* so True and False carry 1 and 0.                                        *)
(***************************************************************************)
PyInt(n) == [t |-> "int", n |-> n, s |-> ""]
PyBool(b) == [t |-> "bool", n |-> IF b THEN 1 ELSE 0, s |-> ""]
PyStr(s) == [t |-> "str", n |-> 0, s |-> s]
PyDate(d) == [t |-> "datetime", n |-> d, s |-> ""]
PyNone == [t |-> "NoneType", n |-> 0, s |-> ""]

\* isinstance(v, int): true of bool as well
IsInstanceInt(v) == v.t \in {"int", "bool"}
IsInstanceBool(v) == v.t = "bool"
\* bool(v)
Truthy(v) ==
    CASE v.t \in {"int", "bool"} -> v.n # 0
      [] v.t = "str" -> v.s # ""
      [] v.t = "NoneType" -> FALSE
      [] OTHER -> TRUE

(***************************************************************************)
(* Texts are sequences of words, so that `needle in text` is decided by    *)
(* looking through the text.                                               *)
(***************************************************************************)
Contains(needle, text) ==
    \E i \in 1..(Len(text) - Len(needle) + 1) :
        SubSeq(text, i, i + Len(needle) - 1) = needle

TooManyRequests == <<"Too", "many", "requests">>

(***************************************************************************)
(* Dicts: functions from keys to values.                                   *)
(***************************************************************************)
EmptyDict == [k \in {} |-> 0]
DictSet(d, key, value) ==
    [k \in DOMAIN d \cup {key} |-> IF k = key THEN value ELSE d[k]]
DictDel(d, key) == [k \in DOMAIN d \ {key} |-> d[k]]

\* dict(items) for a sequence of <<key, value>> items: a later item of the same
\* key replaces the earlier one
RECURSIVE DictOf(_)
DictOf(items) ==
    IF items = <<>> THEN EmptyDict
    ELSE LET n == Len(items)
         IN  DictSet(DictOf(SubSeq(items, 1, n - 1)), items[n][1], items[n][2])

(***************************************************************************)
(* A URL: its path segments (joined by "/"), and the query string: mark is *)
(* "?" when there is one, params its name=value pairs.                     *)
(***************************************************************************)
Url(path, mark, params) == [path |-> path, mark |-> mark, params |-> params]

(***************************************************************************)
(* JSON bodies.  keys is the set of top-level keys present; errors, data,  *)
(* devices and obj are read only when their key is present.  An entry of  *)
(* errors is an object that may or may not have a "message".               *)
(***************************************************************************)
NoRows == <<>>
EmptyObj == <<>>
Json(keys, errors, data, obj) ==
    [keys |-> keys, errors |-> errors, data |-> data, obj |-> obj, devices |-> <<>>,
     paths |-> {}]
\* a body of the GraphQL endpoint: paths are the key paths its data has
GraphJson(keys, errors, paths) ==
    [Json(keys, errors, NoRows, EmptyObj) EXCEPT !.paths = paths]
\* a body of the device-listing endpoint
DevicesJson(keys, errors, devices) ==
    [Json(keys, errors, NoRows, EmptyObj) EXCEPT !.devices = devices]
NoBody == Json({}, <<>>, NoRows, EmptyObj)

(***************************************************************************)
(* The outcome of a call: it returns a value or raises an exception.       *)
(***************************************************************************)
Returned(body) == [kind |-> "return", exc |-> "", msgs |-> <<>>, body |-> body]
Raised(exc, msgs) == [kind |-> "raise", exc |-> exc, msgs |-> msgs, body |-> NoBody]
NotCalled == [kind |-> "none", exc |-> "", msgs |-> <<>>, body |-> NoBody]

(***************************************************************************)
(* AwairClient.__handle_error: the exception of a status other than 200.  *)
(***************************************************************************)
HandleErrorForbiddenAsGeneric(status) ==
    CASE status = 400 -> Raised("QueryError", <<>>)
      [] status = 401 -> Raised("AuthError", <<>>)
      [] status = 404 -> Raised("NotFoundError", <<>>)
      [] status = 429 -> Raised("RatelimitError", <<>>)
      [] OTHER -> Raised("GenericError", <<>>)

handle_error(status) ==
    CASE status = 400 -> Raised("QueryError", <<>>)
      [] status = 401 \/ status = 403 -> Raised("AuthError", <<>>)
      [] status = 404 -> Raised("NotFoundError", <<>>)
      [] status = 429 -> Raised("RatelimitError", <<>>)
      [] OTHER -> Raised("GenericError", <<>>)

(***************************************************************************)
(* AwairClient.__check_200_errors.  The loop over json["errors"]: i is the *)
(* next entry, messages the list built so far.  error["message"] of an     *)
(* entry without that key raises KeyError before error.get is reached.     *)
(***************************************************************************)
ScanErrorsFirstEntryOnly(errors, i, messages) ==
    IF \E k \in 1..Len(errors) : ~errors[k].has
    THEN [done |-> FALSE, exc |-> "KeyError", messages |-> messages]
    ELSE IF errors # <<>> /\ Contains(TooManyRequests, errors[1].message)
    THEN [done |-> FALSE, exc |-> "RatelimitError", messages |-> messages]
    ELSE [done |-> TRUE, exc |-> "", messages |-> [k \in 1..Len(errors) |-> errors[k].message]]

RECURSIVE scan_errors(_, _, _)
scan_errors(errors, i, messages) ==
    IF i > Len(errors)
    THEN [done |-> TRUE, exc |-> "", messages |-> messages]
    ELSE IF ~errors[i].has
    THEN [done |-> FALSE, exc |-> "KeyError", messages |-> messages]
    ELSE IF Contains(TooManyRequests, errors[i].message)
    THEN [done |-> FALSE, exc |-> "RatelimitError", messages |-> messages]
    ELSE scan_errors(errors, i + 1, Append(messages, errors[i].message))

check_200_errors(json) ==
    IF "errors" \in json.keys
    THEN LET r == scan_errors(json.errors, 1, <<>>)
         IN  IF ~r.done THEN Raised(r.exc, <<>>)
             ELSE IF r.messages # <<>> THEN Raised("GenericError", r.messages)
             ELSE Returned(json)
    ELSE Returned(json)

(***************************************************************************)
(* AwairClient.query: one GET; the body is parsed only on status 200.      *)
(***************************************************************************)
query_result(status, json) ==
    IF status # 200 THEN handle_error(status) ELSE check_200_errors(json)

\* the GET as the transport sees it
\* The session a call goes through: the stored one, or, when none is stored,
\* a ClientSession of the call's own that its async with closes on exit.
QuerySessionClosesStored(c) ==
    [session |-> IF c._session = "None" THEN "ClientSession()" ELSE c._session,
     closed |-> TRUE]

query_session(c) ==
    [session |-> IF c._session = "None" THEN "ClientSession()" ELSE c._session,
     closed |-> c._session = "None"]

Get(url) ==
    [url |-> url, headers |-> client._headers, timeout |-> client._timeout,
     session |-> query_session(client).session,
     closed |-> query_session(client).closed]

(***************************************************************************)
(* The inputs of the model.                                                *)
(***************************************************************************)
Statuses == {200, 201, 204, 302, 400, 401, 403, 404, 429, 500, 503}

Messages ==
    { <<"Too", "many", "requests">>,
      <<"Too", "many", "requests", "slow", "down">>,
      <<"Error", "Too", "many", "requests">>,
      <<"Too", "many">>,
      <<"boom">> }

ErrorEntries ==
    { [has |-> TRUE, message |-> m] : m \in Messages }
        \cup { [has |-> FALSE, message |-> <<>>] }

SeqsUpTo(S, n) == UNION { [1..k -> S] : k \in 0..n }

ErrorBodies ==
    { Json({"errors"}, es, NoRows, EmptyObj) : es \in SeqsUpTo(ErrorEntries, MaxErrors) }
        \cup { Json({"errors", "data"}, es, NoRows, EmptyObj) : es \in SeqsUpTo(ErrorEntries, 1) }

PlainBodies == { Json({}, <<>>, NoRows, EmptyObj), Json({"data"}, <<>>, NoRows, EmptyObj) }

QueryUrls == { Url(<<"USER_URL">>, "", EmptyDict), Url(<<"DEVICE_URL">>, "", EmptyDict) }

Sessions == {"None", "supplied"}

NoResp == [status |-> 0, json |-> NoBody]

(***************************************************************************)
(* AwairClient.__init__ and the state before any call.                     *)
(***************************************************************************)
AwairClient(access_token, session) ==
    [_headers |-> [Authorization |-> <<"Bearer", access_token>>,
                   ContentType |-> "application/json"],
     _timeout |-> "DEFAULT_TIMEOUT",
     _session |-> session]

\* auth.AccessTokenAuth: the provider holds the token it was given
AccessTokenAuth(access_token) == [access_token |-> access_token]
get_bearer_token(provider) == provider.access_token

InitAuth == auth = AccessTokenAuth("abcdefg")

InitQuery ==
    /\ client \in { AwairClient(get_bearer_token(AccessTokenAuth("abcdefg")), s) : s \in Sessions }
    /\ requests = <<>>
    /\ resp = NoResp
    /\ outcome = NotCalled

(***************************************************************************)
(* query(url), the transport answering with status and, on 200, json.      *)
(***************************************************************************)
Query(url, status, json) ==
    /\ requests' = <<Get(url)>>
    /\ resp' = [status |-> status, json |-> IF status = 200 THEN json ELSE NoBody]
    /\ outcome' = query_result(status, json)
    /\ UNCHANGED client

QueryStep ==
    \E url \in QueryUrls, status \in Statuses, json \in ErrorBodies \cup PlainBodies :
        Query(url, status, json)

(***************************************************************************)
(* The provider comes to hold another token (auth.access_token = token).   *)
(* The client was given the token at construction and keeps its headers.   *)
(***************************************************************************)
Tokens == {"abcdefg", "refreshed"}

SetAccessToken(token) ==
    /\ auth' = [auth EXCEPT !.access_token = token]
    /\ UNCHANGED queryVars

SetAccessTokenStep == \E token \in Tokens : SetAccessToken(token)

NextQuery ==
    /\ \/ QueryStep /\ UNCHANGED auth
       \/ SetAccessTokenStep
    /\ UNCHANGED <<airVars, attrVars, userVars, facadeVars, localVars>>

(***************************************************************************)
(* AwairBaseDevice.__init__ for a cloud device.  attributes is an entry of *)
(* the device listing: keys names the keys it has.  The three identifying  *)
(* keys are read with [], the descriptive ones (name stands for them) with *)
(* .get(key, None).                                                        *)
(***************************************************************************)
Attributes(keys, deviceId, deviceUUID, deviceType, name) ==
    [keys |-> keys, deviceId |-> deviceId, deviceUUID |-> deviceUUID,
     deviceType |-> deviceType, name |-> name, macAddress |-> "None"]

Built(device) == [ok |-> TRUE, exc |-> "", device |-> device]
BuildRaised(exc) == [ok |-> FALSE, exc |-> exc, device |-> <<>>]

AwairDevice(device_client, attributes) ==
    IF ~({"deviceId", "deviceUUID", "deviceType"} \subseteq attributes.keys)
    THEN BuildRaised("KeyError")
    ELSE Built([device_id |-> attributes.deviceId,
                uuid |-> attributes.deviceUUID,
                device_type |-> attributes.deviceType,
                name |-> IF "name" \in attributes.keys THEN attributes.name ELSE "None",
                mac_address |-> IF "macAddress" \in attributes.keys
                                THEN attributes.macAddress ELSE "None",
                client |-> device_client])

(***************************************************************************)
(* AwairUser.devices: one query of const.DEVICE_URL, one AwairDevice per   *)
(* entry of response.get("devices", []), each given the user's client.     *)
(***************************************************************************)
UserReturned(devices) == [kind |-> "return", exc |-> "", devices |-> devices]
UserRaised(exc) == [kind |-> "raise", exc |-> exc, devices |-> <<>>]
UserNotCalled == [kind |-> "none", exc |-> "", devices |-> <<>>]

AwairUserDevicesOwnClient(user_client, status, json) ==
    LET queried == query_result(status, json)
        entries == IF "devices" \in queried.body.keys THEN queried.body.devices ELSE <<>>
        built == [i \in 1..Len(entries) |->
                    AwairDevice(AwairClient("abcdefg", "None"), entries[i])]
    IN  [sent |-> << Url(<<"DEVICE_URL">>, "", EmptyDict) >>,
         queried |-> queried,
         result |-> IF queried.kind = "raise" THEN UserRaised(queried.exc)
                    ELSE IF \E i \in 1..Len(built) : ~built[i].ok THEN UserRaised("KeyError")
                    ELSE UserReturned([i \in 1..Len(built) |-> built[i].device])]

AwairUser_devices(user_client, status, json) ==
    LET queried == query_result(status, json)
        entries == IF "devices" \in queried.body.keys THEN queried.body.devices ELSE <<>>
        built == [i \in 1..Len(entries) |-> AwairDevice(user_client, entries[i])]
    IN  [sent |-> << Url(<<"DEVICE_URL">>, "", EmptyDict) >>,
         queried |-> queried,
         result |-> IF queried.kind = "raise" THEN UserRaised(queried.exc)
                    ELSE IF \E i \in 1..Len(built) : ~built[i].ok THEN UserRaised("KeyError")
                    ELSE UserReturned([i \in 1..Len(built) |-> built[i].device])]

\* the inputs: entries of the device listing
MOCK_GEN1_DEVICE_ATTRS ==
    Attributes({"deviceId", "deviceType", "deviceUUID"}, 24947, "awair_24947", "awair", "")
MOCK_OMNI_DEVICE_ATTRS ==
    Attributes({"deviceId", "deviceType", "deviceUUID"}, 755, "awair-omni_755", "awair-omni", "")
NamedDeviceAttrs ==
    Attributes({"deviceId", "deviceType", "deviceUUID", "name"}, 5709, "awair-r2_5709",
               "awair-r2", "Bedroom")
DeviceEntries == {MOCK_GEN1_DEVICE_ATTRS, MOCK_OMNI_DEVICE_ATTRS, NamedDeviceAttrs}

DeviceBodies ==
    { DevicesJson({"devices"}, <<>>, ds) : ds \in SeqsUpTo(DeviceEntries, MaxDevices) }
        \cup { DevicesJson({}, <<>>, <<>>),
               DevicesJson({"errors", "devices"}, << [has |-> TRUE, message |-> <<"boom">>] >>,
                           << MOCK_GEN1_DEVICE_ATTRS >>) }

InitUser == userResult = UserNotCalled

(***************************************************************************)
(* user.devices() of the user holding client, with the transport's answer. *)
(***************************************************************************)
UserDevices(status, json) ==
    LET got == AwairUser_devices(client, status, json)
    IN  /\ userResult' = got.result
        /\ requests' = [i \in 1..Len(got.sent) |-> Get(got.sent[i])]
        /\ resp' = [status |-> status, json |-> IF status = 200 THEN json ELSE NoBody]
        /\ outcome' = got.queried
        /\ UNCHANGED client

UserDevicesStep ==
    \E status \in Statuses, json \in DeviceBodies : UserDevices(status, json)

NextUser == UserDevicesStep /\ UNCHANGED <<airVars, attrVars, authVars, facadeVars, localVars>>

(***************************************************************************)
(* const.SENSOR_TO_ALIAS: the alias table of Sensors and Indices.          *)
(***************************************************************************)
SENSOR_TO_ALIAS ==
    [k \in {"temp", "humid", "co2", "voc", "pm25", "lux", "spl_a"} |->
        CASE k = "temp" -> "temperature"
          [] k = "humid" -> "humidity"
          [] k = "co2" -> "carbon_dioxide"
          [] k = "voc" -> "volatile_organic_compounds"
          [] k = "pm25" -> "particulate_matter_2_5"
          [] k = "lux" -> "illuminance"
          [] k = "spl_a" -> "sound_pressure_level"]

(***************************************************************************)
(* AttrDict.__init__.  attrs is the constructor's mapping as its items in  *)
(* iteration order; the loop runs over attrs and rewrites the copy.        *)
(***************************************************************************)
RECURSIVE alias_loop(_, _, _)
alias_loop(attrs, i, new_attrs) ==
    IF i > Len(attrs) THEN new_attrs
    ELSE LET key == attrs[i][1]
             value == attrs[i][2]
         IN  IF key \in DOMAIN SENSOR_TO_ALIAS
             THEN alias_loop(attrs, i + 1,
                      DictDel(DictSet(new_attrs, SENSOR_TO_ALIAS[key], value), key))
             ELSE alias_loop(attrs, i + 1, new_attrs)

AttrDictKeepsRawKey(attrs) ==
    LET RECURSIVE loop(_, _)
        loop(i, new_attrs) ==
            IF i > Len(attrs) THEN new_attrs
            ELSE IF attrs[i][1] \in DOMAIN SENSOR_TO_ALIAS
                 THEN loop(i + 1, DictSet(new_attrs, SENSOR_TO_ALIAS[attrs[i][1]], attrs[i][2]))
                 ELSE loop(i + 1, new_attrs)
    IN  loop(1, DictOf(attrs))

AttrDictInitKeepsAliasValue(attrs) ==
    LET RECURSIVE loop(_, _)
        loop(i, new_attrs) ==
            IF i > Len(attrs) THEN new_attrs
            ELSE IF attrs[i][1] \in DOMAIN SENSOR_TO_ALIAS
                 THEN IF SENSOR_TO_ALIAS[attrs[i][1]] \in DOMAIN DictOf(attrs)
                      THEN loop(i + 1, DictDel(new_attrs, attrs[i][1]))
                      ELSE loop(i + 1, DictDel(DictSet(new_attrs, SENSOR_TO_ALIAS[attrs[i][1]],
                                                       attrs[i][2]), attrs[i][1]))
                 ELSE loop(i + 1, new_attrs)
    IN  loop(1, DictOf(attrs))

AttrDict__init__(attrs) == alias_loop(attrs, 1, DictOf(attrs))

\* The constructor's argument after the call.  new_attrs = dict(attrs) is a
\* copy and the loop assigns and deletes in the copy only.
attrs_after__init__(attrs) == attrs

(***************************************************************************)
(* The mutations an AttrDict offers: dict's item assignment and deletion,  *)
(* and their dot-notation forms, which go through the same entries.        *)
(***************************************************************************)
AttrDictSetattrAliases(d, name, value) ==
    IF name \in DOMAIN SENSOR_TO_ALIAS THEN DictSet(d, SENSOR_TO_ALIAS[name], value)
    ELSE DictSet(d, name, value)

dict__setitem__(d, key, value) == DictSet(d, key, value)
\* del d[key] raises KeyError when key is absent
dict__delitem__(d, key) == IF key \in DOMAIN d THEN DictDel(d, key) ELSE d
AttrDict__setattr__(d, name, value) == dict__setitem__(d, name, value)
AttrDict__delattr__(d, name) == dict__delitem__(d, name)

(***************************************************************************)
(* Reading.  Attribute access looks the name up on the class first, where  *)
(* it finds what dict defines, and calls __getattr__ only when that fails. *)
(* A read gives a value, a bound method of dict, or raises.                *)
(***************************************************************************)
GotValue(value) == [kind |-> "value", value |-> value, exc |-> ""]
GotMethod == [kind |-> "method", value |-> 0, exc |-> ""]
GotRaised(exc) == [kind |-> "raise", value |-> 0, exc |-> exc]

\* the attributes every dict has
dict_attributes ==
    {"clear", "copy", "fromkeys", "get", "items", "keys", "pop", "popitem",
     "setdefault", "update", "values"}

dict__getitem__(d, key) ==
    IF key \in DOMAIN d THEN GotValue(d[key]) ELSE GotRaised("KeyError")

AttrDictGetattrResolvesRaw(d, name) ==
    IF name \in DOMAIN d THEN GotValue(d[name])
    ELSE IF name \in DOMAIN SENSOR_TO_ALIAS /\ SENSOR_TO_ALIAS[name] \in DOMAIN d
    THEN GotValue(d[SENSOR_TO_ALIAS[name]])
    ELSE GotRaised("AttributeError")

AttrDict__getattr__(d, name) ==
    IF name \in DOMAIN d THEN GotValue(d[name]) ELSE GotRaised("AttributeError")

\* d.name
getattr(d, name) ==
    IF name \in dict_attributes THEN GotMethod ELSE AttrDict__getattr__(d, name)

\* dir(d): the names __dir__ returns, which are d.keys()
AttrDict__dir__(d) == DOMAIN d

Op(op, key, value, attrs, exc) ==
    [op |-> op, key |-> key, value |-> value, attrs |-> attrs, exc |-> exc]
NoOp == Op("none", "", 0, <<>>, "")
\* the constructor's call: given is its argument as passed, attrs the same
\* object after the call
InitOp(given, attrs) ==
    [op |-> "init", key |-> "", value |-> 0, attrs |-> attrs, exc |-> "", given |-> given]

\* the inputs
InKeys == DOMAIN SENSOR_TO_ALIAS \cup {"temperature", "foo"}
OpKeys == {"temp", "nope", "items"}
Vals == {1, 2}

\* a mapping of at most n entries, as its items in some insertion order
ItemSeqs(n) ==
    { s \in SeqsUpTo(InKeys \X Vals, n) :
        \A i, j \in 1..Len(s) : i # j => s[i][1] # s[j][1] }

InitAttr ==
    /\ mapping = EmptyDict
    /\ lastOp = NoOp

Construct(attrs) ==
    /\ lastOp.op = "none"
    /\ mapping' = AttrDict__init__(attrs)
    /\ lastOp' = InitOp(attrs, attrs_after__init__(attrs))

SetItem(key, value) ==
    /\ lastOp.op # "none"
    /\ mapping' = dict__setitem__(mapping, key, value)
    /\ lastOp' = Op("setitem", key, value, <<>>, "")

DelItem(key) ==
    /\ lastOp.op # "none"
    /\ mapping' = dict__delitem__(mapping, key)
    /\ lastOp' = Op("delitem", key, 0, <<>>, IF key \in DOMAIN mapping THEN "" ELSE "KeyError")

SetAttr(name, value) ==
    /\ lastOp.op # "none"
    /\ mapping' = AttrDict__setattr__(mapping, name, value)
    /\ lastOp' = Op("setattr", name, value, <<>>, "")

DelAttr(name) ==
    /\ lastOp.op # "none"
    /\ mapping' = AttrDict__delattr__(mapping, name)
    /\ lastOp' = Op("delattr", name, 0, <<>>, IF name \in DOMAIN mapping THEN "" ELSE "KeyError")

ConstructStep == \E attrs \in ItemSeqs(MaxKeys) : Construct(attrs)
SetItemStep == \E key \in OpKeys, value \in Vals : SetItem(key, value)
DelItemStep == \E key \in OpKeys \cup DOMAIN mapping : DelItem(key)
SetAttrStep == \E name \in OpKeys, value \in Vals : SetAttr(name, value)
DelAttrStep == \E name \in OpKeys \cup DOMAIN mapping : DelAttr(name)

NextAttr ==
    /\ \/ ConstructStep
       \/ SetItemStep
       \/ DelItemStep
       \/ SetAttrStep
       \/ DelAttrStep
    /\ UNCHANGED <<queryVars, airVars, authVars, userVars, facadeVars, localVars>>

(***************************************************************************)
(* Time is counted in minutes.  RightNow is what datetime.now() returns    *)
(* during the call under observation.                                      *)
(***************************************************************************)
RightNow == 14 * 24 * 60
timedelta_hours(h) == h * 60

(***************************************************************************)
(* str(v), and the voluptuous validators Coerce(str) and Lower.            *)
(***************************************************************************)
py_str(v) ==
    CASE v.t = "bool" -> IF v.n = 1 THEN "True" ELSE "False"
      [] v.t = "int" -> ToString(v.n)
      [] v.t = "datetime" -> "datetime " \o ToString(v.n)
      [] v.t = "NoneType" -> "None"
      [] OTHER -> v.s

str_lower(s) ==
    CASE s = "True" -> "true"
      [] s = "False" -> "false"
      [] s = "None" -> "none"
      [] OTHER -> s

Coerce_str(v) == PyStr(py_str(v))
Lower(v) == PyStr(str_lower(v.s))

Valid(v) == [ok |-> TRUE, value |-> v]
Invalid == [ok |-> FALSE, value |-> PyNone]

(***************************************************************************)
(* AwairBaseDevice._format_args: the limits per kind, the schema's         *)
(* validator of each key, and validate_hours.                              *)
(***************************************************************************)
max_limit(kind) ==
    CASE kind = "raw" -> 360
      [] kind = "5-min-avg" -> 288
      [] kind = "15-min-avg" -> 672
      [] OTHER -> 1

max_hours(kind) ==
    CASE kind = "raw" -> 1
      [] kind = "15-min-avg" -> 168
      [] kind = "5-min-avg" -> 24
      [] OTHER -> 24

ValidateBoolNoLower(v) ==
    IF IsInstanceBool(v) THEN Valid(Coerce_str(v)) ELSE Invalid

\* vol.All(bool, vol.Coerce(str), vol.Lower)
validate_bool(v) ==
    IF IsInstanceBool(v) THEN Valid(Lower(Coerce_str(v))) ELSE Invalid

\* vol.All(int, vol.Range(min=1, max=max_limit.get(kind, 1)), vol.Coerce(str))
validate_limit(kind, v) ==
    IF IsInstanceInt(v) /\ v.n >= 1 /\ v.n <= max_limit(kind)
    THEN Valid(Coerce_str(v))
    ELSE Invalid

\* the schema's dict: a key it does not name is refused
validate_key(kind, key, v) ==
    CASE key \in {"fahrenheit", "desc"} -> validate_bool(v)
      [] key = "limit" -> validate_limit(kind, v)
      [] key \in {"from_date", "to_date"} -> Valid(v)
      [] OTHER -> Invalid

\* hasattr(v, "now")
HasNow(v) == v.t = "datetime"

ValidateHoursRejectsFullWindow(kind, params, right_now) ==
    LET hour_limit == max_hours(kind)
        from_date == IF "from_date" \in DOMAIN params THEN params["from_date"]
                     ELSE PyDate(right_now - timedelta_hours(hour_limit))
        to_date == IF "to_date" \in DOMAIN params THEN params["to_date"]
                   ELSE PyDate(right_now)
    IN  IF ~HasNow(from_date) \/ ~HasNow(to_date) THEN [ok |-> FALSE, params |-> params]
        ELSE IF from_date.n > right_now \/ to_date.n > right_now
        THEN [ok |-> FALSE, params |-> params]
        ELSE IF from_date.n > to_date.n THEN [ok |-> FALSE, params |-> params]
        ELSE IF to_date.n - from_date.n >= timedelta_hours(hour_limit)
        THEN [ok |-> FALSE, params |-> params]
        ELSE [ok |-> TRUE,
              params |-> [k \in DOMAIN params |->
                            IF k \in {"from_date", "to_date"}
                            THEN PyStr(py_str(params[k]))
                            ELSE params[k]]]

validate_hours(kind, params, right_now) ==
    LET hour_limit == max_hours(kind)
        from_date == IF "from_date" \in DOMAIN params THEN params["from_date"]
                     ELSE PyDate(right_now - timedelta_hours(hour_limit))
        to_date == IF "to_date" \in DOMAIN params THEN params["to_date"]
                   ELSE PyDate(right_now)
    IN  IF ~HasNow(from_date) \/ ~HasNow(to_date) THEN [ok |-> FALSE, params |-> params]
        ELSE IF from_date.n > right_now \/ to_date.n > right_now
        THEN [ok |-> FALSE, params |-> params]
        ELSE IF from_date.n > to_date.n THEN [ok |-> FALSE, params |-> params]
        ELSE IF to_date.n - from_date.n > timedelta_hours(hour_limit)
        THEN [ok |-> FALSE, params |-> params]
        ELSE [ok |-> TRUE,
              params |-> [k \in DOMAIN params |->
                            IF k \in {"from_date", "to_date"}
                            THEN PyStr(py_str(params[k]))
                            ELSE params[k]]]

\* urllib.parse.urlencode: one name=value pair per entry, under the entry's key
urlencode(args) == [k \in DOMAIN args |-> py_str(args[k])]

Formatted(mark, params) == [ok |-> TRUE, exc |-> "", mark |-> mark, params |-> params]
FormatRaised(exc) == [ok |-> FALSE, exc |-> exc, mark |-> "", params |-> EmptyDict]

FormatArgsSendsDefaultDates(kind, kwargs, right_now) ==
    LET checked == [k \in DOMAIN kwargs |-> validate_key(kind, k, kwargs[k])]
    IN  IF \E k \in DOMAIN kwargs : ~checked[k].ok THEN FormatRaised("Invalid")
        ELSE LET hours == validate_hours(kind, [k \in DOMAIN kwargs |-> checked[k].value],
                                         right_now)
                 to_date == PyStr(py_str(PyDate(right_now)))
             IN  IF ~hours.ok THEN FormatRaised("Invalid")
                 ELSE Formatted("?", urlencode(
                          IF "to_date" \in DOMAIN hours.params THEN hours.params
                          ELSE DictSet(hours.params, "to_date", to_date)))

AwairBaseDevice_format_args(kind, kwargs, right_now) ==
    LET checked == [k \in DOMAIN kwargs |-> validate_key(kind, k, kwargs[k])]
    IN  IF \E k \in DOMAIN kwargs : ~checked[k].ok THEN FormatRaised("Invalid")
        ELSE LET hours == validate_hours(kind, [k \in DOMAIN kwargs |-> checked[k].value],
                                         right_now)
             IN  IF ~hours.ok THEN FormatRaised("Invalid")
                 ELSE IF DOMAIN hours.params # {}
                 THEN Formatted("?", urlencode(hours.params))
                 ELSE Formatted("", EmptyDict)

(***************************************************************************)
(* AwairLocalDevice._format_args: a truthy fahrenheit raises, any other    *)
(* fahrenheit is removed before the base class validates the rest.         *)
(***************************************************************************)
LocalFormatArgsNeverRaises(kind, kwargs, right_now) ==
    AwairBaseDevice_format_args(kind, DictDel(kwargs, "fahrenheit"), right_now)

LocalFormatArgsKeepsFahrenheit(kind, kwargs, right_now) ==
    IF "fahrenheit" \in DOMAIN kwargs /\ Truthy(kwargs["fahrenheit"])
    THEN FormatRaised("ValueError")
    ELSE AwairBaseDevice_format_args(kind, kwargs, right_now)

AwairLocalDevice_format_args(kind, kwargs, right_now) ==
    IF "fahrenheit" \in DOMAIN kwargs
    THEN IF Truthy(kwargs["fahrenheit"]) THEN FormatRaised("ValueError")
         ELSE AwairBaseDevice_format_args(kind, DictDel(kwargs, "fahrenheit"), right_now)
    ELSE AwairBaseDevice_format_args(kind, kwargs, right_now)

format_args(device, kind, kwargs, right_now) ==
    IF device.variant = "local"
    THEN AwairLocalDevice_format_args(kind, kwargs, right_now)
    ELSE AwairBaseDevice_format_args(kind, kwargs, right_now)

(***************************************************************************)
(* _get_airdata_base_url of the two device classes, as the arguments of    *)
(* the "/".join.                                                           *)
(***************************************************************************)
get_airdata_base_url(device) ==
    IF device.variant = "local"
    THEN << "http://" \o device.device_addr >>
    ELSE << "DEVICE_URL", device.device_type, ToString(device.device_id) >>

(***************************************************************************)
(* Rows of air data as the API sends them.  keys names the keys present;   *)
(* timestamp is the wire text as <<day, hour, minute>>; sensors and        *)
(* indices are lists of <<comp, value>>.                                   *)
(***************************************************************************)
Row(keys, timestamp, score, sensors, indices) ==
    [keys |-> keys, timestamp |-> timestamp, score |-> score,
     sensors |-> sensors, indices |-> indices]

\* datetime.strptime(text, const.DATE_FORMAT)
strptime(text) == PyDate((text[1] * 24 + text[2]) * 60 + text[3])

\* the items of the dict a comprehension builds from a list of <<key, value>>:
\* one item per key, placed where the key first occurs, with its last value
DictItems(items) ==
    LET d == DictOf(items)
        RECURSIVE go(_)
        go(i) ==
            IF i > Len(items) THEN <<>>
            ELSE IF \E j \in 1..(i - 1) : items[j][1] = items[i][1] THEN go(i + 1)
            ELSE << <<items[i][1], d[items[i][1]]>> >> \o go(i + 1)
    IN  go(1)

(***************************************************************************)
(* AirData.__init__                                                        *)
(***************************************************************************)
AirDataWithoutIndices(attributes) ==
    [timestamp |-> strptime(attributes.timestamp),
     score |-> attributes.score,
     sensors |-> AttrDict__init__(DictItems(
                    IF "sensors" \in attributes.keys THEN attributes.sensors ELSE <<>>)),
     indices |-> EmptyDict]

AirData(attributes) ==
    [timestamp |-> strptime(attributes.timestamp),
     score |-> attributes.score,
     sensors |-> AttrDict__init__(DictItems(
                    IF "sensors" \in attributes.keys THEN attributes.sensors ELSE <<>>)),
     indices |-> AttrDict__init__(DictItems(
                    IF "indices" \in attributes.keys THEN attributes.indices ELSE <<>>))]

(***************************************************************************)
(* _extract_airdata of the two device classes.                             *)
(***************************************************************************)
Extracted(rows) == [ok |-> TRUE, exc |-> "", rows |-> rows]
ExtractRaised(exc) == [ok |-> FALSE, exc |-> exc, rows |-> <<>>]

\* response.get("data", [])
AwairDevice_extract_airdata(response) ==
    Extracted(IF "data" \in response.keys THEN response.data ELSE <<>>)

LocalExtractReadsData(response) ==
    Extracted(IF "data" \in response.keys THEN response.data ELSE <<>>)

LocalExtractKeepsTopLevel(response) ==
    LET obj == response.obj
        d == DictOf(obj)
    IN  IF "timestamp" \notin DOMAIN d \/ "score" \notin DOMAIN d
        THEN ExtractRaised("KeyError")
        ELSE Extracted(<< Row({"timestamp", "score", "sensors"}, d["timestamp"],
                              d["score"], obj, <<>>) >>)

\* response is the flat object of a local device, obj its items
AwairLocalDevice_extract_airdata(response) ==
    LET obj == response.obj
        top_level == {"timestamp", "score"}
        d == DictOf(obj)
        RECURSIVE sensors(_)
        sensors(i) ==
            IF i > Len(obj) THEN <<>>
            ELSE IF obj[i][1] \notin top_level THEN << obj[i] >> \o sensors(i + 1)
            ELSE sensors(i + 1)
    IN  IF "timestamp" \notin DOMAIN d \/ "score" \notin DOMAIN d
        THEN ExtractRaised("KeyError")
        ELSE Extracted(<< Row({"timestamp", "score", "sensors"}, d["timestamp"],
                              d["score"], sensors(1), <<>>) >>)

extract_airdata(device, response) ==
    IF device.variant = "local"
    THEN AwairLocalDevice_extract_airdata(response)
    ELSE AwairDevice_extract_airdata(response)

(***************************************************************************)
(* AwairBaseDevice.__get_airdata: the URL, the arguments, the query, the   *)
(* records.  sent lists the URLs given to client.query, queried is the     *)
(* outcome of that query, result the list returned or the exception.       *)
(***************************************************************************)
AirReturned(shape, value) == [kind |-> "return", exc |-> "", shape |-> shape, value |-> value]
AirRaised(exc) == [kind |-> "raise", exc |-> exc, shape |-> "", value |-> <<>>]
AirNotCalled == [kind |-> "none", exc |-> "", shape |-> "", value |-> <<>>]

GetAirdataQueriesFirst(device, kind, kwargs, right_now, status, json) ==
    LET path == get_airdata_base_url(device) \o <<"air-data", kind>>
        fmt == format_args(device, kind, kwargs, right_now)
        queried == query_result(status, json)
    IN  [sent |-> << Url(path, "", EmptyDict) >>,
         queried |-> queried,
         result |-> IF queried.kind = "raise" THEN AirRaised(queried.exc)
                    ELSE IF ~fmt.ok THEN AirRaised(fmt.exc)
                    ELSE AirReturned("list", <<>>)]

GetAirdataRetries(device, kind, kwargs, right_now, status, json) ==
    LET path == get_airdata_base_url(device) \o <<"air-data", kind>>
        fmt == format_args(device, kind, kwargs, right_now)
        url == Url(path, fmt.mark, fmt.params)
        queried == query_result(status, json)
        rows == extract_airdata(device, queried.body)
    IN  IF ~fmt.ok
        THEN [sent |-> <<>>, queried |-> NotCalled, result |-> AirRaised(fmt.exc)]
        ELSE IF queried.kind = "raise"
        THEN [sent |-> <<url, url>>, queried |-> queried, result |-> AirRaised(queried.exc)]
        ELSE IF ~rows.ok
        THEN [sent |-> <<url>>, queried |-> queried, result |-> AirRaised(rows.exc)]
        ELSE [sent |-> <<url>>, queried |-> queried,
              result |-> AirReturned("list",
                             [i \in 1..Len(rows.rows) |-> AirData(rows.rows[i])])]

get_airdata(device, kind, kwargs, right_now, status, json) ==
    LET path == get_airdata_base_url(device) \o <<"air-data", kind>>
        fmt == format_args(device, kind, kwargs, right_now)
        url == Url(path, fmt.mark, fmt.params)
        queried == query_result(status, json)
        rows == extract_airdata(device, queried.body)
    IN  IF ~fmt.ok
        THEN [sent |-> <<>>, queried |-> NotCalled, result |-> AirRaised(fmt.exc)]
        ELSE IF queried.kind = "raise"
        THEN [sent |-> <<url>>, queried |-> queried, result |-> AirRaised(queried.exc)]
        ELSE IF ~rows.ok
        THEN [sent |-> <<url>>, queried |-> queried, result |-> AirRaised(rows.exc)]
        ELSE [sent |-> <<url>>, queried |-> queried,
              result |-> AirReturned("list",
                             [i \in 1..Len(rows.rows) |-> AirData(rows.rows[i])])]

(***************************************************************************)
(* air_data_latest: the first record of the "latest" kind, or None.        *)
(***************************************************************************)
AirDataLatestLastRecord(device, fahrenheit, right_now, status, json) ==
    LET got == get_airdata(device, "latest", [k \in {"fahrenheit"} |-> fahrenheit],
                           right_now, status, json)
        response == got.result
    IN  IF response.kind = "raise" THEN got
        ELSE IF response.value # <<>>
        THEN [got EXCEPT !.result =
                 AirReturned("record", << response.value[Len(response.value)] >>)]
        ELSE [got EXCEPT !.result = AirReturned("None", <<>>)]

air_data_latest(device, fahrenheit, right_now, status, json) ==
    LET got == get_airdata(device, "latest", [k \in {"fahrenheit"} |-> fahrenheit],
                           right_now, status, json)
        response == got.result
    IN  IF response.kind = "raise" THEN got
        ELSE IF response.value # <<>>
        THEN [got EXCEPT !.result = AirReturned("record", << response.value[1] >>)]
        ELSE [got EXCEPT !.result = AirReturned("None", <<>>)]

air_data_five_minute(device, kwargs, right_now, status, json) ==
    get_airdata(device, "5-min-avg", kwargs, right_now, status, json)

air_data_fifteen_minute(device, kwargs, right_now, status, json) ==
    get_airdata(device, "15-min-avg", kwargs, right_now, status, json)

air_data_raw(device, kwargs, right_now, status, json) ==
    get_airdata(device, "raw", kwargs, right_now, status, json)

(***************************************************************************)
(* The inputs of the air-data calls.                                       *)
(***************************************************************************)
CloudDevice ==
    [variant |-> "cloud", device_type |-> "awair", device_id |-> 24947, device_addr |-> ""]
LocalDevice ==
    [variant |-> "local", device_type |-> "awair-element", device_id |-> 5366,
     device_addr |-> "AWAIR-ELEM-1419E1.local"]
Devices == {CloudDevice, LocalDevice}

ArgNames == {"fahrenheit", "desc", "limit", "from_date", "to_date", "page"}

BoolArgVals == {PyBool(TRUE), PyBool(FALSE), PyNone, PyInt(1), PyInt(0)}
LimitArgVals ==
    { PyInt(n) : n \in {-1, 0, 1, 2, 288, 289, 360, 361, 672, 673} }
        \cup {PyBool(TRUE), PyBool(FALSE), PyNone, PyStr("5")}
\* minutes before RightNow; a negative offset is a date in the future
DateOffsets == {-60, -1, 0, 1, 60, 61, 1440, 1441, 10080, 10081}
DateArgVals == { PyDate(RightNow - off) : off \in DateOffsets } \cup {PyBool(FALSE), PyNone}

ArgVals(key) ==
    CASE key \in {"fahrenheit", "desc"} -> BoolArgVals
      [] key = "limit" -> LimitArgVals
      [] key \in {"from_date", "to_date"} -> DateArgVals
      [] OTHER -> {PyInt(1)}

AllArgVals == UNION { ArgVals(key) : key \in ArgNames }

Kwargs ==
    UNION { { f \in [K -> AllArgVals] : \A k \in K : f[k] \in ArgVals(k) } :
            K \in { K \in SUBSET ArgNames : Cardinality(K) <= MaxArgs } }

Row1 ==
    Row({"timestamp", "score", "sensors", "indices"}, <<10, 15, 38>>, 88,
        << <<"temp", 21>>, <<"co2", 600>>, <<"dust", 5>> >>, << <<"temp", -1>> >>)
Row2 ==
    Row({"timestamp", "score", "sensors"}, <<10, 15, 43>>, 93,
        << <<"humid", 40>>, <<"temperature", 19>> >>, <<>>)
Rows == {Row1, Row2}

CloudBodies ==
    { Json({"data"}, <<>>, rows, EmptyObj) : rows \in SeqsUpTo(Rows, MaxRows) }
        \cup { Json({}, <<>>, NoRows, EmptyObj),
               Json({"errors"}, << [has |-> TRUE, message |-> <<"boom">>] >>, NoRows, EmptyObj) }

LocalObjs ==
    { << <<"timestamp", <<31, 22, 7>> >>, <<"score", 93>>, <<"temp", 19>>, <<"humid", 40>> >>,
      << <<"score", 93>>, <<"temp", 19>> >>,
      << <<"score", 88>>, <<"dew_point", 7>>, <<"timestamp", <<31, 22, 17>> >>,
         <<"pm25", 2>> >> }

KeysOf(items) == { items[i][1] : i \in 1..Len(items) }

LocalBodies == { Json(KeysOf(obj), <<>>, NoRows, obj) : obj \in LocalObjs }

BodiesOf(device) == IF device.variant = "local" THEN LocalBodies ELSE CloudBodies

AirStatuses == {200, 404, 429}

AirCallOf(device, op, kwargs, right_now) ==
    [device |-> device, op |-> op, kwargs |-> kwargs, right_now |-> right_now]
NoAirCall == AirCallOf(CloudDevice, "none", EmptyDict, 0)

InitAir ==
    /\ airCall = NoAirCall
    /\ airResult = AirNotCalled
    /\ sent = <<>>

(***************************************************************************)
(* One air-data call of a device, with the answer the transport gives if   *)
(* it is asked.  A call that raises before the query leaves no request.    *)
(* A behaviour observes one call.                                          *)
(***************************************************************************)
AirCall(device, op, kwargs, status, json, got) ==
    /\ airCall' = AirCallOf(device, op, kwargs, RightNow)
    /\ airResult' = got.result
    /\ sent' = got.sent
    /\ requests' = [i \in 1..Len(got.sent) |-> Get(got.sent[i])]
    /\ resp' = IF got.sent = <<>> THEN NoResp
               ELSE [status |-> status, json |-> IF status = 200 THEN json ELSE NoBody]
    /\ outcome' = got.queried
    /\ UNCHANGED client

AirDataLatest ==
    /\ airCall.op = "none"
    /\ \E device \in Devices, fahrenheit \in BoolArgVals,
       status \in AirStatuses, json \in CloudBodies \cup LocalBodies :
        /\ json \in BodiesOf(device)
        /\ AirCall(device, "air_data_latest", [k \in {"fahrenheit"} |-> fahrenheit],
                   status, json,
                   air_data_latest(device, fahrenheit, RightNow, status, json))

AirDataFiveMinute ==
    /\ airCall.op = "none"
    /\ \E device \in Devices, kwargs \in Kwargs,
       status \in AirStatuses, json \in CloudBodies \cup LocalBodies :
        /\ json \in BodiesOf(device)
        /\ AirCall(device, "air_data_five_minute", kwargs, status, json,
                   air_data_five_minute(device, kwargs, RightNow, status, json))

AirDataFifteenMinute ==
    /\ airCall.op = "none"
    /\ \E device \in Devices, kwargs \in Kwargs,
       status \in AirStatuses, json \in CloudBodies \cup LocalBodies :
        /\ json \in BodiesOf(device)
        /\ AirCall(device, "air_data_fifteen_minute", kwargs, status, json,
                   air_data_fifteen_minute(device, kwargs, RightNow, status, json))

AirDataRaw ==
    /\ airCall.op = "none"
    /\ \E device \in Devices, kwargs \in Kwargs,
       status \in AirStatuses, json \in CloudBodies \cup LocalBodies :
        /\ json \in BodiesOf(device)
        /\ AirCall(device, "air_data_raw", kwargs, status, json,
                   air_data_raw(device, kwargs, RightNow, status, json))

NextAir ==
    /\ \/ AirDataLatest
       \/ AirDataFiveMinute
       \/ AirDataFifteenMinute
       \/ AirDataRaw
    /\ UNCHANGED <<attrVars, authVars, userVars, facadeVars, localVars>>

(***************************************************************************)
(* The package entry point, python_awair/__init__.py: AwairClient.         *)
(* __init__ takes access_token as a required parameter: a call without it  *)
(* fails in the call itself with TypeError, and any value given, None      *)
(* included, is formatted into the Authorization header.  args holds the   *)
(* keyword arguments of the call.                                          *)
(***************************************************************************)
FacadeBuilt(args, c) == [kind |-> "built", exc |-> "", args |-> args, client |-> c]
FacadeRaised(args, exc) ==
    [kind |-> "raise", exc |-> exc, args |-> args, client |-> AwairClient("", "None")]
NoFacade == [kind |-> "none", exc |-> "", args |-> EmptyDict, client |-> AwairClient("", "None")]

EntryAwairClient(args) ==
    IF "access_token" \notin DOMAIN args THEN FacadeRaised(args, "TypeError")
    ELSE FacadeBuilt(args,
             AwairClient(py_str(args["access_token"]),
                         IF "session" \in DOMAIN args THEN py_str(args["session"])
                         ELSE "None"))

(***************************************************************************)
(* AwairClient._quote and the variables of an operation: deviceUUID first, *)
(* then the keyword arguments in their order, from_date renamed to from.   *)
(* Variables are lists of <<name, value>>.                                 *)
(***************************************************************************)
quote(arg) ==
    IF IsInstanceBool(arg) THEN PyStr(IF Truthy(arg) THEN "true" ELSE "false")
    ELSE IF arg.t = "str" THEN PyStr("\"" \o arg.s \o "\"")
    ELSE arg

\* variables[key] = value on a dict held as its items
ItemsSet(items, key, value) ==
    IF \E i \in 1..Len(items) : items[i][1] = key
    THEN [i \in 1..Len(items) |-> IF items[i][1] = key THEN <<key, value>> ELSE items[i]]
    ELSE Append(items, <<key, value>>)

RECURSIVE air_variables(_, _, _)
air_variables(kwargs, i, variables) ==
    IF i > Len(kwargs) THEN variables
    ELSE LET key == IF kwargs[i][1] = "from_date" THEN "from" ELSE kwargs[i][1]
         IN  air_variables(kwargs, i + 1, ItemsSet(variables, key, quote(kwargs[i][2])))

\* ",".join(["%s: %s" % (k, v) for (k, v) in variables.items()])
query_variables(variables) ==
    [i \in 1..Len(variables) |-> <<variables[i][1], py_str(variables[i][2])>>]

(***************************************************************************)
(* AwairClient._query: one POST to const.AWAIR_URL.  On 200 it reads       *)
(* json["data"], then looks through json["errors"] for a rate-limit        *)
(* message; 400, 401 and 404 have their exceptions, every other status     *)
(* raises GenericError.  A body's data is the set of key paths it has.     *)
(***************************************************************************)
RECURSIVE legacy_scan(_, _)
legacy_scan(errors, i) ==
    IF i > Len(errors) THEN "none"
    ELSE IF ~errors[i].has THEN "KeyError"
    ELSE IF Contains(TooManyRequests, errors[i].message) THEN "RatelimitError"
    ELSE legacy_scan(errors, i + 1)

LegacyReturned(path) == [kind |-> "return", exc |-> "", path |-> path]
LegacyRaised(exc) == [kind |-> "raise", exc |-> exc, path |-> <<>>]

legacy_query(status, json) ==
    IF status = 200
    THEN IF "data" \notin json.keys THEN LegacyRaised("KeyError")
         ELSE LET found == IF "errors" \in json.keys THEN legacy_scan(json.errors, 1)
                           ELSE "none"
              IN  IF found # "none" THEN LegacyRaised(found) ELSE LegacyReturned(<<>>)
    ELSE IF status = 400 THEN LegacyRaised("QueryError")
    ELSE IF status = 401 THEN LegacyRaised("AuthError")
    ELSE IF status = 404 THEN LegacyRaised("NotFoundError")
    ELSE LegacyRaised("GenericError")

\* response[a][b]...: KeyError at the first key of path the data lacks
Subscript(queried, json, path) ==
    IF queried.kind = "raise" THEN queried
    ELSE IF \E n \in 1..Len(path) : SubSeq(path, 1, n) \notin json.paths
    THEN LegacyRaised("KeyError")
    ELSE LegacyReturned(path)

\* "query { %s }" % (const.X_QUERY % variables): the query named and the
\* variables formatted into it
GraphQuery(name, formatted) == [name |-> name, variables |-> formatted]

\* the POST as the transport sees it
Post(c, query, variables) ==
    [url |-> "AWAIR_URL",
     json |-> [query |-> query, variables |-> variables],
     headers |-> c._headers]
NoPost == Post(AwairClient("", "None"), GraphQuery("", <<>>), <<>>)

(***************************************************************************)
(* The operations of the entry point: each builds its query, calls _query  *)
(* once and returns a part of the data.                                    *)
(***************************************************************************)
LegacyOp(op, request, status, result) ==
    [op |-> op, request |-> request, status |-> status, result |-> result]
NoLegacyOp == LegacyOp("none", NoPost, 0, LegacyRaised(""))

entry_user(c, status, json) ==
    LegacyOp("user", Post(c, GraphQuery("USER_QUERY", <<>>), <<>>), status,
             Subscript(legacy_query(status, json), json, <<"User">>))

entry_devices(c, status, json) ==
    LegacyOp("devices", Post(c, GraphQuery("DEVICE_QUERY", <<>>), <<>>), status,
             Subscript(legacy_query(status, json), json, <<"Devices", "devices">>))

entry_air_data_latest(c, uuid, fahrenheit, status, json) ==
    LET variables == << <<"deviceUUID", quote(uuid)>>, <<"fahrenheit", quote(fahrenheit)>> >>
    IN  LegacyOp("air_data_latest",
                 Post(c, GraphQuery("LATEST_QUERY", query_variables(variables)), variables), status,
                 Subscript(legacy_query(status, json), json, <<"AirDataLatest", "airDataSeq">>))

entry_air_data(op, name, top, c, uuid, kwargs, status, json) ==
    LET variables == air_variables(kwargs, 1, << <<"deviceUUID", quote(uuid)>> >>)
    IN  LegacyOp(op, Post(c, GraphQuery(name, query_variables(variables)), variables), status,
                 Subscript(legacy_query(status, json), json, <<top, "airDataSeq">>))

entry_air_data_five_minute(c, uuid, kwargs, status, json) ==
    entry_air_data("air_data_five_minute", "FIVE_MIN_QUERY", "AirData5Minute",
                   c, uuid, kwargs, status, json)
entry_air_data_fifteen_minute(c, uuid, kwargs, status, json) ==
    entry_air_data("air_data_fifteen_minute", "FIFTEEN_MIN_QUERY", "AirData15Minute",
                   c, uuid, kwargs, status, json)
entry_air_data_raw(c, uuid, kwargs, status, json) ==
    entry_air_data("air_data_raw", "RAW_QUERY", "AirDataRaw", c, uuid, kwargs, status, json)

\* the inputs
FacadeArgs ==
    { f \in UNION { [K -> {PyStr("abcdefg"), PyStr("supplied"), PyNone}] :
                    K \in SUBSET {"access_token", "session"} } :
        /\ "access_token" \in DOMAIN f => f["access_token"] \in {PyStr("abcdefg"), PyNone}
        /\ "session" \in DOMAIN f => f["session"] \in {PyStr("supplied"), PyNone} }

Prefixes(path) == { SubSeq(path, 1, n) : n \in 1..Len(path) }
DataPaths ==
    { <<"User">>, <<"Devices", "devices">>, <<"AirDataLatest", "airDataSeq">>,
      <<"AirData5Minute", "airDataSeq">>, <<"AirData15Minute", "airDataSeq">>,
      <<"AirDataRaw", "airDataSeq">> }
GraphBodies ==
    { GraphJson({"data"}, <<>>, Prefixes(path)) : path \in DataPaths }
        \cup { GraphJson({"data"}, <<>>, {<<path[1]>>}) : path \in DataPaths }
        \cup { GraphJson({"data", "errors"}, es, {}) : es \in SeqsUpTo(ErrorEntries, 1) }
        \cup { GraphJson({}, <<>>, {}) }

Uuids == { PyStr("awair_24947") }
EntryKwargs ==
    { <<>>,
      << <<"from_date", PyStr("2020-04-10T00:00:00")>> >>,
      << <<"to_date", PyStr("2020-04-10T12:00:00")>>, <<"limit", PyInt(1)>> >>,
      << <<"desc", PyBool(TRUE)>>, <<"fahrenheit", PyBool(FALSE)>> >> }

InitFacade ==
    /\ facade = NoFacade
    /\ legacy = NoLegacyOp

(***************************************************************************)
(* Constructing the entry point, then an operation on the object built.    *)
(* A behaviour observes one operation.                                     *)
(***************************************************************************)
ConstructEntry ==
    /\ facade.kind = "none"
    /\ \E args \in FacadeArgs : facade' = EntryAwairClient(args)
    /\ UNCHANGED legacy

EntryUser ==
    /\ facade.kind = "built" /\ legacy.op = "none"
    /\ \E status \in Statuses, json \in GraphBodies :
          legacy' = entry_user(facade.client, status, json)
    /\ UNCHANGED facade

EntryDevices ==
    /\ facade.kind = "built" /\ legacy.op = "none"
    /\ \E status \in Statuses, json \in GraphBodies :
          legacy' = entry_devices(facade.client, status, json)
    /\ UNCHANGED facade

EntryAirDataLatest ==
    /\ facade.kind = "built" /\ legacy.op = "none"
    /\ \E uuid \in Uuids, fahrenheit \in {PyBool(TRUE), PyBool(FALSE)},
          status \in Statuses, json \in GraphBodies :
          legacy' = entry_air_data_latest(facade.client, uuid, fahrenheit, status, json)
    /\ UNCHANGED facade

EntryAirDataFiveMinute ==
    /\ facade.kind = "built" /\ legacy.op = "none"
    /\ \E uuid \in Uuids, kwargs \in EntryKwargs, status \in Statuses, json \in GraphBodies :
          legacy' = entry_air_data_five_minute(facade.client, uuid, kwargs, status, json)
    /\ UNCHANGED facade

EntryAirDataFifteenMinute ==
    /\ facade.kind = "built" /\ legacy.op = "none"
    /\ \E uuid \in Uuids, kwargs \in EntryKwargs, status \in Statuses, json \in GraphBodies :
          legacy' = entry_air_data_fifteen_minute(facade.client, uuid, kwargs, status, json)
    /\ UNCHANGED facade

EntryAirDataRaw ==
    /\ facade.kind = "built" /\ legacy.op = "none"
    /\ \E uuid \in Uuids, kwargs \in EntryKwargs, status \in Statuses, json \in GraphBodies :
          legacy' = entry_air_data_raw(facade.client, uuid, kwargs, status, json)
    /\ UNCHANGED facade

NextFacade ==
    /\ \/ ConstructEntry
       \/ EntryUser
       \/ EntryDevices
       \/ EntryAirDataLatest
       \/ EntryAirDataFiveMinute
       \/ EntryAirDataFifteenMinute
       \/ EntryAirDataRaw
    /\ UNCHANGED <<queryVars, airVars, attrVars, authVars, userVars, localVars>>

(***************************************************************************)
(* Texts that are split and parsed are lists of pieces: a piece is "_" or  *)
(* a run of other characters.  int() reads a numeral, or numerals joined   *)
(* by single underscores.                                                  *)
(***************************************************************************)
RECURSIVE Concat(_)
Concat(pieces) == IF pieces = <<>> THEN "" ELSE Head(pieces) \o Concat(Tail(pieces))

\* the numerals of the model: value and number of digits
Numerals ==
    [p \in {"5366", "6049", "007", "12"} |->
        CASE p = "5366" -> [n |-> 5366, digits |-> 4]
          [] p = "6049" -> [n |-> 6049, digits |-> 4]
          [] p = "007" -> [n |-> 7, digits |-> 3]
          [] p = "12" -> [n |-> 12, digits |-> 2]]

RECURSIVE Pow10(_)
Pow10(k) == IF k = 0 THEN 1 ELSE 10 * Pow10(k - 1)

\* int(text)
RECURSIVE int_digits(_, _)
int_digits(pieces, acc) ==
    IF pieces = <<>> THEN [ok |-> TRUE, n |-> acc]
    ELSE IF Len(pieces) < 2 \/ pieces[1] # "_" \/ pieces[2] \notin DOMAIN Numerals
    THEN [ok |-> FALSE, n |-> 0]
    ELSE int_digits(SubSeq(pieces, 3, Len(pieces)),
                    acc * Pow10(Numerals[pieces[2]].digits) + Numerals[pieces[2]].n)
int(pieces) ==
    IF pieces = <<>> \/ pieces[1] \notin DOMAIN Numerals THEN [ok |-> FALSE, n |-> 0]
    ELSE int_digits(Tail(pieces), Numerals[pieces[1]].n)

\* text.split("_", 1)
RsplitAtLast(pieces) ==
    IF \E i \in 1..Len(pieces) : pieces[i] = "_"
    THEN LET i == CHOOSE i \in 1..Len(pieces) :
                     pieces[i] = "_" /\ \A j \in (i + 1)..Len(pieces) : pieces[j] # "_"
         IN  << SubSeq(pieces, 1, i - 1), SubSeq(pieces, i + 1, Len(pieces)) >>
    ELSE << pieces >>

split_1(pieces) ==
    IF \E i \in 1..Len(pieces) : pieces[i] = "_"
    THEN LET i == CHOOSE i \in 1..Len(pieces) :
                     pieces[i] = "_" /\ \A j \in 1..(i - 1) : pieces[j] # "_"
         IN  << SubSeq(pieces, 1, i - 1), SubSeq(pieces, i + 1, Len(pieces)) >>
    ELSE << pieces >>

(***************************************************************************)
(* AwairLocalDevice.__init__.  attributes is the config object of the      *)
(* device as its items; device_uuid is a text in pieces.                   *)
(***************************************************************************)
AwairLocalDeviceOwnAddr(device_client, device_addr, attributes) ==
    LET d == DictOf(attributes)
    IN  IF "device_uuid" \notin DOMAIN d THEN BuildRaised("KeyError")
        ELSE LET parts == split_1(d["device_uuid"])
             IN  IF Len(parts) # 2 THEN BuildRaised("ValueError")
                 ELSE IF ~int(parts[2]).ok THEN BuildRaised("ValueError")
                 ELSE LET base == AwairDevice(device_client,
                                      [Attributes({"deviceId", "deviceUUID", "deviceType",
                                                   "macAddress"},
                                                  int(parts[2]).n, d["device_uuid"],
                                                  Concat(parts[1]), "")
                                       EXCEPT !.macAddress =
                                           IF "wifi_mac" \in DOMAIN d THEN d["wifi_mac"]
                                           ELSE "None"]).device
                      IN  Built([device_id |-> base.device_id, uuid |-> base.uuid,
                                 device_type |-> base.device_type, name |-> base.name,
                                 mac_address |-> base.mac_address, client |-> base.client,
                                 device_addr |-> Concat(<<base.device_type, ".local">>),
                                 fw_version |-> IF "fw_version" \in DOMAIN d
                                                THEN d["fw_version"] ELSE "None"])

AwairLocalDevice(device_client, device_addr, attributes) ==
    LET d == DictOf(attributes)
    IN  IF "device_uuid" \notin DOMAIN d THEN BuildRaised("KeyError")
        ELSE LET parts == split_1(d["device_uuid"])
             IN  IF Len(parts) # 2 THEN BuildRaised("ValueError")
                 ELSE IF ~int(parts[2]).ok THEN BuildRaised("ValueError")
                 ELSE LET base == AwairDevice(device_client,
                                      [Attributes({"deviceId", "deviceUUID", "deviceType",
                                                   "macAddress"},
                                                  int(parts[2]).n, d["device_uuid"],
                                                  Concat(parts[1]), "")
                                       EXCEPT !.macAddress =
                                           IF "wifi_mac" \in DOMAIN d THEN d["wifi_mac"]
                                           ELSE "None"]).device
                      IN  Built([device_id |-> base.device_id, uuid |-> base.uuid,
                                 device_type |-> base.device_type, name |-> base.name,
                                 mac_address |-> base.mac_address, client |-> base.client,
                                 device_addr |-> device_addr,
                                 fw_version |-> IF "fw_version" \in DOMAIN d
                                                THEN d["fw_version"] ELSE "None"])

(***************************************************************************)
(* The local facade's devices(): one query of each address's config        *)
(* endpoint, all dispatched before any reply is awaited; the replies come  *)
(* in any order and are joined by the position of their address.  The call *)
(* fails with the first failure there is.                                  *)
(***************************************************************************)
config_url(device_addr) ==
    Url(<< "http://" \o device_addr, "settings", "config", "data" >>, "", EmptyDict)

LocalCallOf(addrs, phase) == [addrs |-> addrs, phase |-> phase]
NoLocalCall == LocalCallOf(<<>>, "none")

\* the reply to query i among the replies so far
Replied(replies, i) == \E k \in 1..Len(replies) : replies[k][1] = i
ReplyTo(replies, i) == (CHOOSE k \in 1..Len(replies) : replies[k][1] = i)
ReplyOf(replies, i) == replies[ReplyTo(replies, i)][2]

\* the join pairs reply and address by the position of the address
gather_devices(local_client, addrs, replies) ==
    LET built == [i \in 1..Len(addrs) |->
                    AwairLocalDevice(local_client, addrs[i], ReplyOf(replies, i).body.obj)]
    IN  IF \E i \in 1..Len(built) : ~built[i].ok
        THEN UserRaised(built[CHOOSE i \in 1..Len(built) :
                                  ~built[i].ok /\ \A j \in 1..(i - 1) : built[j].ok].exc)
        ELSE UserReturned([i \in 1..Len(built) |-> built[i].device])

\* the inputs: the devices on the network and their config objects
LocalAddrs == {"AWAIR-ELEM-1416DC.local", "AWAIR-ELEM-1419E1.local", "192.168.1.7"}
ConfigsAt(device_addr) ==
    CASE device_addr = "AWAIR-ELEM-1416DC.local" ->
            { << <<"device_uuid", <<"awair-element", "_", "6049">> >>,
                 <<"wifi_mac", "70:88:6B:14:16:DC">>, <<"fw_version", "1.1.5">> >> }
      [] device_addr = "AWAIR-ELEM-1419E1.local" ->
            { << <<"device_uuid", <<"awair-element", "_", "5366">> >>,
                 <<"wifi_mac", "70:88:6B:14:19:E1">>, <<"fw_version", "1.1.5">> >>,
              << <<"device_uuid", <<"awair-element", "_", "5366">> >> >> }
      [] OTHER ->
            { << <<"device_uuid", <<"awair-omni", "_", "12">> >>,
                 <<"fw_version", "1.2.0">> >>,
              << <<"device_uuid", <<"awair-omni", "_", "007">> >> >>,
              << <<"device_uuid", <<"awair-omni", "_", "abc">> >> >>,
              << <<"device_uuid", <<"awair", "_", "12", "_", "12">> >> >> }
ConfigBodies(device_addr) ==
    { Json(KeysOf(obj), <<>>, NoRows, obj) : obj \in ConfigsAt(device_addr) }
AllConfigBodies == UNION { ConfigBodies(a) : a \in LocalAddrs }
AddrLists == { addrs \in SeqsUpTo(LocalAddrs, MaxAddrs) : addrs # <<>> }
LocalStatuses == {200, 404}

InitLocal ==
    /\ localCall = NoLocalCall
    /\ localReplies = <<>>
    /\ localResult = UserNotCalled

\* devices() is called and dispatches its queries
LocalDispatch ==
    /\ localCall.phase = "none"
    /\ \E addrs \in AddrLists :
          /\ localCall' = LocalCallOf(addrs, "waiting")
          /\ requests' = [i \in 1..Len(addrs) |-> Get(config_url(addrs[i]))]
    /\ UNCHANGED <<client, resp, outcome, localReplies, localResult>>

\* the transport answers one of the outstanding queries
LocalReply ==
    /\ localCall.phase = "waiting"
    /\ \E i \in 1..Len(localCall.addrs), status \in LocalStatuses, json \in AllConfigBodies :
          /\ ~Replied(localReplies, i)
          /\ json \in ConfigBodies(localCall.addrs[i])
          /\ localReplies' = Append(localReplies, <<i, query_result(status, json)>>)
          /\ resp' = [status |-> status, json |-> IF status = 200 THEN json ELSE NoBody]
          /\ outcome' = query_result(status, json)
    /\ UNCHANGED <<client, requests, localCall, localResult>>

\* every query has returned: the devices are built and returned
LocalJoin ==
    /\ localCall.phase = "waiting"
    /\ \A i \in 1..Len(localCall.addrs) :
          Replied(localReplies, i) /\ ReplyOf(localReplies, i).kind = "return"
    /\ localCall' = [localCall EXCEPT !.phase = "done"]
    /\ localResult' = gather_devices(client, localCall.addrs, localReplies)
    /\ UNCHANGED <<queryVars, localReplies>>

\* a query has failed: the call fails with it
LocalFail ==
    /\ localCall.phase = "waiting"
    /\ \E k \in 1..Len(localReplies) :
          /\ localReplies[k][2].kind = "raise"
          /\ \A j \in 1..(k - 1) : localReplies[j][2].kind = "return"
          /\ localResult' = UserRaised(localReplies[k][2].exc)
    /\ localCall' = [localCall EXCEPT !.phase = "done"]
    /\ UNCHANGED <<queryVars, localReplies>>

NextLocal ==
    /\ \/ LocalDispatch
       \/ LocalReply
       \/ LocalJoin
       \/ LocalFail
    /\ UNCHANGED <<airVars, attrVars, authVars, userVars, facadeVars>>

(***************************************************************************)
(* The specifications.                                                     *)
(***************************************************************************)
Init == InitQuery /\ InitAir /\ InitAttr /\ InitAuth /\ InitUser /\ InitFacade /\ InitLocal
Next == NextQuery \/ NextAir \/ NextAttr \/ NextUser \/ NextFacade \/ NextLocal
Spec == Init /\ [][Next]_vars

SpecQuery == Init /\ [][NextQuery]_vars
SpecAir == Init /\ [][NextAir]_vars
SpecAttr == Init /\ [][NextAttr]_vars
SpecUser == Init /\ [][NextUser]_vars
SpecFacade == Init /\ [][NextFacade]_vars
SpecLocal == Init /\ [][NextLocal]_vars

\* one public operation of the REST client per behaviour: a query, a device
\* listing or an air-data call
NextOps ==
    /\ outcome.kind = "none" /\ airCall.op = "none" /\ userResult.kind = "none"
    /\ \/ NextQuery
       \/ NextUser
       \/ NextAir
SpecOps == Init /\ [][NextOps]_vars

(***************************************************************************)
(* The claims about AwairClient.query (SpecQuery).                         *)
(***************************************************************************)
QueryCalled == outcome.kind # "none" /\ requests # <<>>

\* the exception the specification names for a status other than 200
StatusError(status) ==
    IF status = 400 THEN "QueryError"
    ELSE IF status \in {401, 403} THEN "AuthError"
    ELSE IF status = 404 THEN "NotFoundError"
    ELSE IF status = 429 THEN "RatelimitError"
    ELSE "GenericError"

\* C1: a query answered with a status other than 200 raises and returns no
\* body: 400 raises QueryError, 401 and 403 AuthError, 404 NotFoundError,
\* 429 RatelimitError, any other status GenericError.
C1_StatusErrors ==
    (QueryCalled /\ resp.status # 200) =>
        /\ outcome.kind = "raise"
        /\ outcome.body = NoBody
        /\ outcome.exc = StatusError(resp.status)

C1_Witness ==
    /\ QueryCalled
    /\ resp.status = 403
    /\ outcome = Raised("AuthError", <<>>)

\* the errors array of a parsed body, empty when the key is absent
ErrorsOf(json) == IF "errors" \in json.keys THEN json.errors ELSE <<>>

HasRatelimitMessage(errors) ==
    \E i \in 1..Len(errors) :
        errors[i].has /\ Contains(TooManyRequests, errors[i].message)

\* C2: on status 200, an errors array with an entry whose message contains
\* "Too many requests" raises RatelimitError; otherwise a non-empty errors
\* array raises GenericError carrying all the messages; otherwise (no errors
\* key, or an empty array) the parsed body is returned unchanged.
C2_Errors200 ==
    (QueryCalled /\ resp.status = 200) =>
        LET errors == ErrorsOf(resp.json)
        IN  IF HasRatelimitMessage(errors)
            THEN outcome.kind = "raise" /\ outcome.exc = "RatelimitError"
            ELSE IF errors # <<>>
            THEN /\ outcome.kind = "raise"
                 /\ outcome.exc = "GenericError"
                 /\ \A i \in 1..Len(errors) :
                        errors[i].has =>
                            \E j \in 1..Len(outcome.msgs) : outcome.msgs[j] = errors[i].message
            ELSE outcome = Returned(resp.json)

(***************************************************************************)
(* The claims about the air-data calls (SpecAir).                          *)
(***************************************************************************)
AirCalled == airCall.op # "none"
ListOps == {"air_data_five_minute", "air_data_fifteen_minute", "air_data_raw"}
ValidationErrors == {"Invalid", "ValueError"}
RaisedValidation == airResult.kind = "raise" /\ airResult.exc \in ValidationErrors
NoRequestIssued == sent = <<>> /\ requests = <<>> /\ resp = NoResp /\ outcome = NotCalled

\* the limits the specification gives per operation: rows, and minutes of window
SpecMaxLimit(op) ==
    IF op = "air_data_raw" THEN 360
    ELSE IF op = "air_data_five_minute" THEN 288
    ELSE IF op = "air_data_fifteen_minute" THEN 672
    ELSE 1
SpecMaxWindow(op) ==
    IF op = "air_data_raw" THEN 60
    ELSE IF op = "air_data_fifteen_minute" THEN 168 * 60
    ELSE 24 * 60

\* the ways a keyword parameter of call c fails validation
UnknownKeyword(c) ==
    \E k \in DOMAIN c.kwargs : k \notin {"fahrenheit", "desc", "limit", "from_date", "to_date"}
WrongType(c) ==
    \/ "desc" \in DOMAIN c.kwargs /\ c.kwargs["desc"].t # "bool"
    \/ /\ "fahrenheit" \in DOMAIN c.kwargs
       /\ c.device.variant = "cloud"
       /\ c.kwargs["fahrenheit"].t # "bool"
    \/ "limit" \in DOMAIN c.kwargs /\ c.kwargs["limit"].t \notin {"int", "bool"}
    \/ \E k \in {"from_date", "to_date"} \cap DOMAIN c.kwargs : c.kwargs[k].t # "datetime"
LimitOutOfRange(c) ==
    /\ "limit" \in DOMAIN c.kwargs
    /\ c.kwargs["limit"].t \in {"int", "bool"}
    /\ (c.kwargs["limit"].n < 1 \/ c.kwargs["limit"].n > SpecMaxLimit(c.op))
DateWindowViolation(c) ==
    /\ \A k \in {"from_date", "to_date"} \cap DOMAIN c.kwargs : c.kwargs[k].t = "datetime"
    /\ LET from == IF "from_date" \in DOMAIN c.kwargs THEN c.kwargs["from_date"].n
                   ELSE c.right_now - SpecMaxWindow(c.op)
           to == IF "to_date" \in DOMAIN c.kwargs THEN c.kwargs["to_date"].n
                 ELSE c.right_now
       IN  \/ from > c.right_now
           \/ to > c.right_now
           \/ from > to
           \/ to - from > SpecMaxWindow(c.op)
LocalFahrenheit(c) ==
    /\ c.device.variant = "local"
    /\ "fahrenheit" \in DOMAIN c.kwargs
    /\ Truthy(c.kwargs["fahrenheit"])
FailsValidation(c) ==
    \/ UnknownKeyword(c)
    \/ WrongType(c)
    \/ LimitOutOfRange(c)
    \/ DateWindowViolation(c)
    \/ LocalFahrenheit(c)

Accepted == sent # <<>>
SentParams == sent[1].params

\* C4: for raw, 5-min-avg and 15-min-avg and every value of limit (integers,
\* booleans, None, strings), limit is accepted exactly when it is an integer
\* with 1 <= limit <= max_limit(kind) (360, 288, 672); an accepted limit is
\* sent as its decimal string and any other value raises the validation error.
C4_LimitRange ==
    (AirCalled /\ airCall.op \in ListOps /\ DOMAIN airCall.kwargs = {"limit"}) =>
        LET limit == airCall.kwargs["limit"]
            inRange == limit.t = "int" /\ 1 <= limit.n /\ limit.n <= SpecMaxLimit(airCall.op)
        IN  /\ Accepted <=> inRange
            /\ Accepted => SentParams = [k \in {"limit"} |-> ToString(limit.n)]
            /\ ~inRange => airResult = AirRaised("Invalid")

\* C5: with from_date and to_date both given, the call is rejected when either
\* is later than the call time, when from_date > to_date, or when
\* to_date - from_date exceeds max_window(kind) (1 h, 24 h, 168 h); it is
\* accepted otherwise, a difference of exactly max_window included; a value
\* that is no timestamp (False, None) for either date is rejected.
C5_DateWindow ==
    (AirCalled /\ airCall.op \in ListOps /\ DOMAIN airCall.kwargs = {"from_date", "to_date"}) =>
        LET from == airCall.kwargs["from_date"]
            to == airCall.kwargs["to_date"]
            fine == /\ from.t = "datetime"
                    /\ to.t = "datetime"
                    /\ from.n <= airCall.right_now
                    /\ to.n <= airCall.right_now
                    /\ from.n <= to.n
                    /\ to.n - from.n <= SpecMaxWindow(airCall.op)
        IN  /\ Accepted <=> fine
            /\ ~fine => (airResult = AirRaised("Invalid") /\ NoRequestIssued)

C5_Witness ==
    /\ AirCalled
    /\ airCall.op = "air_data_raw"
    /\ DOMAIN airCall.kwargs = {"from_date", "to_date"}
    /\ airCall.kwargs["from_date"] = PyDate(airCall.right_now - 61)
    /\ airCall.kwargs["to_date"] = PyDate(airCall.right_now - 1)
    /\ Accepted

\* C6: on a cloud device, for every kind, fahrenheit and desc are accepted
\* only when the value is a boolean and are then sent as lowercase "true" or
\* "false"; any other value (None, the integer 1) raises the validation error.
C6_Booleans ==
    (AirCalled /\ airCall.device.variant = "cloud") =>
        \A key \in {"fahrenheit", "desc"} \cap DOMAIN airCall.kwargs :
            LET v == airCall.kwargs[key]
            IN  /\ v.t # "bool" => (airResult = AirRaised("Invalid") /\ NoRequestIssued)
                /\ Accepted =>
                      /\ v.t = "bool"
                      /\ key \in DOMAIN SentParams
                      /\ SentParams[key] = (IF v = PyBool(TRUE) THEN "true" ELSE "false")
                /\ (v.t = "bool" /\ DOMAIN airCall.kwargs = {key}) => Accepted

C6_Witness ==
    /\ AirCalled
    /\ airCall.device.variant = "cloud"
    /\ airCall.op = "air_data_raw"
    /\ airCall.kwargs = [k \in {"desc"} |-> PyBool(FALSE)]
    /\ Accepted
    /\ SentParams = [k \in {"desc"} |-> "false"]

\* C7: the query string of an air-data request names its parameters
\* fahrenheit, desc, limit, from and to: a given from_date is sent under the
\* name "from" and a given to_date under the name "to".
C7_WireNames ==
    (AirCalled /\ Accepted) =>
        /\ DOMAIN SentParams \subseteq {"fahrenheit", "desc", "limit", "from", "to"}
        /\ "from_date" \in DOMAIN airCall.kwargs => "from" \in DOMAIN SentParams
        /\ "to_date" \in DOMAIN airCall.kwargs => "to" \in DOMAIN SentParams

\* C8: air_data_latest of a cloud device queries the "latest" kind and returns
\* the record of the first row of the response's data array; when that array
\* is empty or absent it returns None: no exception, no empty record.
C8_Latest ==
    (AirCalled /\ airCall.op = "air_data_latest" /\ airCall.device.variant = "cloud"
        /\ Accepted) =>
        /\ Len(sent) = 1
        /\ sent[1].path[Len(sent[1].path)] = "latest"
        /\ outcome.kind = "return" =>
              LET data == IF "data" \in resp.json.keys THEN resp.json.data ELSE <<>>
              IN  IF data = <<>>
                  THEN airResult = AirReturned("None", <<>>)
                  ELSE airResult = AirReturned("record", << AirData(data[1]) >>)

C8_Witness ==
    /\ AirCalled
    /\ airCall.op = "air_data_latest"
    /\ airCall.device.variant = "cloud"
    /\ outcome.kind = "return"
    /\ resp.json = Json({"data"}, <<>>, <<>>, EmptyObj)
    /\ airResult = AirReturned("None", <<>>)

(***************************************************************************)
(* The claims about the Sensors/Indices mapping (SpecAttr).                *)
(***************************************************************************)
RawKeys == DOMAIN SENSOR_TO_ALIAS
JustBuilt == lastOp.op = "init"
NoRawKeyIn(d) == DOMAIN d \cap RawKeys = {}

\* alias k of the table is the alias of a raw key the items also hold
ShadowedBy(items, k) ==
    { i \in 1..Len(items) : items[i][1] \in RawKeys /\ SENSOR_TO_ALIAS[items[i][1]] = k }

\* C9 as stated: for every mapping given to the constructor, each key k of the
\* alias table is exposed with its value under alias(k) and k is no key of the
\* result; each key not in the table is present unchanged with its value.
C9_AliasOrUnchanged ==
    JustBuilt =>
        \A i \in 1..Len(lastOp.attrs) :
            LET k == lastOp.attrs[i][1]
                v == lastOp.attrs[i][2]
            IN  IF k \in RawKeys
                THEN /\ SENSOR_TO_ALIAS[k] \in DOMAIN mapping
                     /\ mapping[SENSOR_TO_ALIAS[k]] = v
                     /\ k \notin DOMAIN mapping
                ELSE k \in DOMAIN mapping /\ mapping[k] = v

\* C9 as amended: each key k of the alias table is exposed with its value
\* under alias(k) and k is no key of the result; each key not in the table is
\* a key of the result, with its own value unless the mapping also holds the
\* raw key it is the alias of, whose value it then has.
C9_AliasOrUnchangedUnlessShadowed ==
    JustBuilt =>
        \A i \in 1..Len(lastOp.attrs) :
            LET k == lastOp.attrs[i][1]
                v == lastOp.attrs[i][2]
            IN  IF k \in RawKeys
                THEN /\ SENSOR_TO_ALIAS[k] \in DOMAIN mapping
                     /\ mapping[SENSOR_TO_ALIAS[k]] = v
                     /\ k \notin DOMAIN mapping
                ELSE /\ k \in DOMAIN mapping
                     /\ IF ShadowedBy(lastOp.attrs, k) = {}
                        THEN mapping[k] = v
                        ELSE \A j \in ShadowedBy(lastOp.attrs, k) :
                                mapping[k] = lastOp.attrs[j][2]

C9_Witness ==
    /\ JustBuilt
    /\ lastOp.attrs = << <<"temperature", 2>>, <<"temp", 1>> >>
    /\ mapping = [k \in {"temperature"} |-> 1]

\* C10 as stated: in every state reachable from a constructed mapping by item
\* or dot-notation assignment and deletion, no raw key of the alias table is a
\* key of the mapping.
C10_NeverRawKey == lastOp.op # "none" => NoRawKeyIn(mapping)

\* C10 as amended: a mapping has no raw key of the alias table when it is
\* constructed, and deletions and assignments to names outside the table keep
\* it so; the mapping is mutable, and an assignment to a raw key, by item or by
\* dot notation, stores the value under that raw key itself.
C10_RawKeyOnlyByAssignment ==
    [][ /\ lastOp'.op = "init" => NoRawKeyIn(mapping')
        /\ (NoRawKeyIn(mapping) /\ lastOp'.op \in {"delitem", "delattr"})
              => NoRawKeyIn(mapping')
        /\ (NoRawKeyIn(mapping) /\ lastOp'.op \in {"setitem", "setattr"}
                /\ lastOp'.key \notin RawKeys)
              => NoRawKeyIn(mapping')
        /\ lastOp'.op \in {"setitem", "setattr"}
              => /\ lastOp'.key \in DOMAIN mapping'
                 /\ mapping'[lastOp'.key] = lastOp'.value
                 /\ \A k \in DOMAIN mapping' \ {lastOp'.key} :
                        k \in DOMAIN mapping /\ mapping'[k] = mapping[k] ]_vars

C10_Witness ==
    /\ lastOp.op = "setattr"
    /\ lastOp.key = "temp"
    /\ "temp" \in DOMAIN mapping
    /\ "temperature" \in DOMAIN mapping
    /\ mapping["temp"] # mapping["temperature"]

(***************************************************************************)
(* The claims about AwairUser.devices (SpecUser).                          *)
(***************************************************************************)
UserCalled == userResult.kind # "none"
\* the devices array of a parsed body, empty when the key is absent
DevicesOf(json) == IF "devices" \in json.keys THEN json.devices ELSE <<>>

\* C11: devices() issues one GET, of the device-listing endpoint; when it
\* returns, the list has one device per entry of the response's devices array
\* (none when the key is absent), in the array's order, the i-th device has
\* the i-th entry's deviceUUID, deviceId and deviceType, and every device
\* holds the user's client.
C11_UserDevices ==
    UserCalled =>
        /\ Len(requests) = 1
        /\ requests[1].url = Url(<<"DEVICE_URL">>, "", EmptyDict)
        /\ userResult.kind = "return" =>
              LET entries == DevicesOf(resp.json)
                  devices == userResult.devices
              IN  /\ Len(devices) = Len(entries)
                  /\ \A i \in 1..Len(entries) :
                        /\ devices[i].uuid = entries[i].deviceUUID
                        /\ devices[i].device_id = entries[i].deviceId
                        /\ devices[i].device_type = entries[i].deviceType
                        /\ devices[i].client = client

C11_Witness ==
    /\ userResult.kind = "return"
    /\ client._session = "supplied"
    /\ resp.json.devices = << MOCK_OMNI_DEVICE_ATTRS, MOCK_GEN1_DEVICE_ATTRS >>
    /\ Len(userResult.devices) = 2
    /\ userResult.devices[1].uuid = "awair-omni_755"
    /\ userResult.devices[2].uuid = "awair_24947"
    /\ userResult.devices[2].client = client

(***************************************************************************)
(* Exception classes.  The classes client.py and __init__.py raise are the *)
(* ones nested in their AwairClient, each derived from Exception; the      *)
(* classes of exceptions.py derive from AwairError.  A class is its scope  *)
(* and name.                                                               *)
(***************************************************************************)
Class(scope, name) == [scope |-> scope, name |-> name]
ErrorNames == {"GenericError", "AuthError", "QueryError", "NotFoundError", "RatelimitError"}

\* the class the name exc denotes where client.py and __init__.py raise it
RaisedClass(exc) ==
    IF exc \in ErrorNames THEN Class("AwairClient", exc) ELSE Class("builtins", exc)

\* the base class of a class
Base(cls) ==
    IF cls.scope = "AwairClient" THEN Class("builtins", "Exception")
    ELSE IF cls.scope = "exceptions"
    THEN IF cls.name = "AwairError" THEN Class("builtins", "Exception")
         ELSE Class("exceptions", "AwairError")
    ELSE IF cls.name \in {"TypeError", "ValueError", "LookupError"}
    THEN Class("builtins", "Exception")
    ELSE IF cls.name = "KeyError" THEN Class("builtins", "LookupError")
    ELSE IF cls.name = "Exception" THEN Class("builtins", "BaseException")
    ELSE Class("builtins", "object")

RECURSIVE issubclass(_, _)
issubclass(cls, classinfo) ==
    IF cls = classinfo THEN TRUE
    ELSE IF cls = Class("builtins", "object") THEN FALSE
    ELSE issubclass(Base(cls), classinfo)

AwairError == Class("exceptions", "AwairError")

(***************************************************************************)
(* The claims about the package entry point (SpecFacade).                  *)
(***************************************************************************)
\* a construction given neither an access token nor an authentication provider
NoCredentials(args) ==
    /\ "access_token" \in DOMAIN args => args["access_token"] = PyNone
    /\ "authenticator" \in DOMAIN args => args["authenticator"] = PyNone

\* C12: constructing the entry point with neither an access token nor an
\* authentication provider fails in the construction with an error that is
\* an AwairError, and no request has been issued.
C12_NoCredentials ==
    (facade.kind # "none" /\ NoCredentials(facade.args)) =>
        /\ facade.kind = "raise"
        /\ issubclass(RaisedClass(facade.exc), AwairError)
        /\ legacy = NoLegacyOp

\* an operation of the entry point has been called
EntryCalled == legacy.op # "none"

\* C19: every operation of the entry point (user, devices, air_data_latest,
\* air_data_five_minute, air_data_fifteen_minute, air_data_raw) raises
\* RatelimitError when the transport answers 429 and NotFoundError when it
\* answers 404.
C19_EntryStatusErrors ==
    EntryCalled =>
        /\ legacy.status = 429 => legacy.result = LegacyRaised("RatelimitError")
        /\ legacy.status = 404 => legacy.result = LegacyRaised("NotFoundError")

(***************************************************************************)
(* The claims about the local facade (SpecLocal).                          *)
(***************************************************************************)
LocalReturned == localCall.phase = "done" /\ localResult.kind = "return"
\* the replies completed in another order than the addresses were given
OutOfOrder == \E k \in 1..Len(localReplies) : localReplies[k][1] # k

\* C13: when devices() over N addresses returns, it returns N devices, the
\* i-th built from the reply to the i-th address's query and carrying that
\* address, in whatever order the replies completed.
C13_LocalOrder ==
    LocalReturned =>
        /\ Len(localResult.devices) = Len(localCall.addrs)
        /\ \A i \in 1..Len(localCall.addrs) :
              LET device == localResult.devices[i]
                  config == DictOf(ReplyOf(localReplies, i).body.obj)
              IN  /\ device.device_addr = localCall.addrs[i]
                  /\ device.uuid = config["device_uuid"]
                  /\ requests[i].url = config_url(localCall.addrs[i])

C13_Witness ==
    /\ LocalReturned
    /\ localCall.addrs = <<"AWAIR-ELEM-1416DC.local", "AWAIR-ELEM-1419E1.local">>
    /\ localReplies[1][1] = 2
    /\ localResult.devices[1].device_id = 6049
    /\ localResult.devices[2].device_id = 5366

(***************************************************************************)
(* The claims about the air-data calls of a local device (SpecAir).        *)
(***************************************************************************)
LocalCalled == AirCalled /\ airCall.device.variant = "local"
GivenFahrenheit == "fahrenheit" \in DOMAIN airCall.kwargs

\* C14: an air-data call of a local device that is given fahrenheit raises a
\* validation error, whatever the value given.
C14_LocalFahrenheitRejected ==
    (LocalCalled /\ GivenFahrenheit) => RaisedValidation

\* C14, amended: the call raises ValueError, before any request, when the
\* fahrenheit it is given is true; a false (or None, or 0) fahrenheit is not
\* refused: given alone, the call goes on to its query.
C14_LocalFahrenheitTrueRejected ==
    (LocalCalled /\ GivenFahrenheit) =>
        IF Truthy(airCall.kwargs["fahrenheit"])
        THEN airResult = AirRaised("ValueError") /\ NoRequestIssued
        ELSE /\ airResult # AirRaised("ValueError")
             /\ DOMAIN airCall.kwargs = {"fahrenheit"} => Len(sent) = 1

C14_Witness ==
    /\ LocalCalled
    /\ airCall.op = "air_data_raw"
    /\ airCall.kwargs = [k \in {"fahrenheit"} |-> PyBool(TRUE)]
    /\ airResult = AirRaised("ValueError")
    /\ NoRequestIssued

\* C15: no URL a local device passes to client.query has a fahrenheit
\* parameter, whatever the kind and the keyword arguments; air_data_latest
\* requests exactly http://{device_addr}/air-data/latest, with no query string.
C15_LocalNoFahrenheit ==
    LocalCalled =>
        /\ \A i \in 1..Len(sent) : "fahrenheit" \notin DOMAIN sent[i].params
        /\ (airCall.op = "air_data_latest" /\ sent # <<>>) =>
              sent = << Url(<< "http://" \o airCall.device.device_addr, "air-data", "latest" >>,
                            "", EmptyDict) >>

C15_Witness ==
    /\ LocalCalled
    /\ airCall.op = "air_data_latest"
    /\ airCall.kwargs = [k \in {"fahrenheit"} |-> PyBool(FALSE)]
    /\ sent = << Url(<<"http://AWAIR-ELEM-1419E1.local", "air-data", "latest">>, "", EmptyDict) >>
    /\ airResult.kind = "return"

(***************************************************************************)
(* The claims about the token of a query (SpecQuery).                      *)
(***************************************************************************)
\* a step that is a call of query: the provider is left as it was
QueryStepTaken == auth' = auth

\* C16: the GET of every query carries "Authorization: Bearer <token>" for
\* the token the provider returns during that call: after the provider has
\* come to return another token, the next request carries the new one.
C16_TokenPerCall ==
    [][QueryStepTaken =>
          /\ Len(requests') = 1
          /\ requests'[1].headers.Authorization = <<"Bearer", get_bearer_token(auth')>>]_vars

(***************************************************************************)
(* The claims about the requests of one operation (SpecOps).               *)
(***************************************************************************)
\* C17: no retries.  A call of query issues exactly one GET whatever its
\* outcome; a device listing or an air-data call invokes query at most once;
\* a failure of the query is raised to the caller, with no further request.
C17_NoRetries ==
    /\ outcome.kind # "none" => Len(requests) = 1
    /\ outcome.kind = "none" => requests = <<>>
    /\ AirCalled =>
          /\ Len(sent) <= 1
          /\ Len(requests) = Len(sent)
          /\ outcome.kind = "raise" => airResult = AirRaised(outcome.exc)
    /\ UserCalled =>
          /\ Len(requests) = 1
          /\ outcome.kind = "raise" => userResult = UserRaised(outcome.exc)

C17_Witness ==
    /\ AirCalled
    /\ airCall.device.variant = "cloud"
    /\ airCall.op = "air_data_raw"
    /\ resp.status = 429
    /\ Len(requests) = 1
    /\ airResult = AirRaised("RatelimitError")

(***************************************************************************)
(* The claims about the classes of the errors of query (SpecQuery).        *)
(***************************************************************************)
\* an `except handler:` clause catches the exception raised
Catches(handler, exc) == issubclass(RaisedClass(exc), handler)

\* C18: every error query raises is an instance of AwairError, and a handler
\* for one of AuthError, QueryError, NotFoundError, RatelimitError of
\* exceptions.py catches exactly the errors of its kind.
C18_AwairErrors ==
    (QueryCalled /\ outcome.kind = "raise") =>
        /\ Catches(AwairError, outcome.exc)
        /\ \A kind \in ErrorNames \ {"GenericError"} :
              Catches(Class("exceptions", kind), outcome.exc) <=> outcome.exc = kind

(***************************************************************************)
(* The claim about the records of a local device (SpecAir).                *)
(***************************************************************************)
TopLevel == {"timestamp", "score"}
\* the name a key is known by after alias normalisation
AliasOf(k) == IF k \in DOMAIN SENSOR_TO_ALIAS THEN SENSOR_TO_ALIAS[k] ELSE k
\* the value the flat object obj, given as its items, has at key k
ValueAt(obj, k) == obj[CHOOSE i \in 1..Len(obj) : obj[i][1] = k][2]

\* C20: the flat object a local device answers with becomes exactly one row:
\* its timestamp and score are the object's, its sensors are the remaining
\* keys, each as comp and value.  The record returned has one sensor entry
\* per remaining key, under the key's alias-normalised name and with the
\* key's value, and no indices.
C20_LocalRecord ==
    (LocalCalled /\ airResult.kind = "return") =>
        LET obj == resp.json.obj
            rest == KeysOf(obj) \ TopLevel
            rows == AwairLocalDevice_extract_airdata(resp.json).rows
        IN  /\ Len(rows) = 1
            /\ rows[1].timestamp = ValueAt(obj, "timestamp")
            /\ rows[1].score = ValueAt(obj, "score")
            /\ KeysOf(rows[1].sensors) = rest
            /\ Len(rows[1].sensors) = Cardinality(rest)
            /\ \A i \in 1..Len(rows[1].sensors) :
                  rows[1].sensors[i] = <<rows[1].sensors[i][1], ValueAt(obj, rows[1].sensors[i][1])>>
            /\ Len(airResult.value) = 1
            /\ airResult.value[1].timestamp = strptime(ValueAt(obj, "timestamp"))
            /\ airResult.value[1].score = ValueAt(obj, "score")
            /\ DOMAIN airResult.value[1].sensors = { AliasOf(k) : k \in rest }
            /\ Cardinality(DOMAIN airResult.value[1].sensors) = Cardinality(rest)
            /\ \A k \in rest : airResult.value[1].sensors[AliasOf(k)] = ValueAt(obj, k)
            /\ airResult.value[1].indices = EmptyDict

C20_Witness ==
    /\ LocalCalled
    /\ airCall.op = "air_data_latest"
    /\ airResult.kind = "return"
    /\ resp.json.obj =
          << <<"timestamp", <<31, 22, 7>> >>, <<"score", 93>>, <<"temp", 19>>, <<"humid", 40>> >>
    /\ airResult.value[1].sensors = [k \in {"temperature", "humidity"} |->
                                       IF k = "temperature" THEN 19 ELSE 40]
    /\ airResult.value[1].indices = EmptyDict

(***************************************************************************)
(* The claims about reading a Sensors/Indices mapping (SpecAttr).          *)
(***************************************************************************)
\* the names read
ReadNames == InKeys \cup OpKeys \cup {"keys"}
Assigned == lastOp.op \in {"setitem", "setattr"}
Deleted == lastOp.op \in {"delitem", "delattr"} /\ lastOp.exc = ""

\* dot notation and key access agree on name n of mapping d
SameView(d, n) ==
    IF n \in DOMAIN d THEN getattr(d, n) = GotValue(d[n]) /\ dict__getitem__(d, n) = GotValue(d[n])
    ELSE getattr(d, n) = GotRaised("AttributeError")

\* C21 as stated: for every name n, reading attribute n gives the value at
\* key n and raises AttributeError when n is no key; after key n or attribute
\* n is set to v both read v; after a deletion by key or by attribute n is
\* neither a key nor listed by dir().
C21_SameView ==
    lastOp.op # "none" =>
        /\ \A n \in ReadNames : SameView(mapping, n)
        /\ Assigned =>
              /\ dict__getitem__(mapping, lastOp.key) = GotValue(lastOp.value)
              /\ getattr(mapping, lastOp.key) = GotValue(lastOp.value)
        /\ Deleted =>
              lastOp.key \notin DOMAIN mapping /\ lastOp.key \notin AttrDict__dir__(mapping)

\* C21 as amended: the same, for every name that is not an attribute of dict
\* itself; such a name reads as dict's attribute whatever the keys are.
C21_SameViewOfOtherNames ==
    lastOp.op # "none" =>
        /\ \A n \in ReadNames \ dict_attributes : SameView(mapping, n)
        /\ \A n \in ReadNames \cap dict_attributes : getattr(mapping, n) = GotMethod
        /\ Assigned =>
              /\ dict__getitem__(mapping, lastOp.key) = GotValue(lastOp.value)
              /\ lastOp.key \notin dict_attributes =>
                    getattr(mapping, lastOp.key) = GotValue(lastOp.value)
        /\ Deleted =>
              lastOp.key \notin DOMAIN mapping /\ lastOp.key \notin AttrDict__dir__(mapping)

C21_Witness ==
    /\ lastOp.op = "setattr"
    /\ lastOp.key = "nope"
    /\ getattr(mapping, "nope") = GotValue(lastOp.value)
    /\ "humidity" \in DOMAIN mapping
    /\ getattr(mapping, "humid") = GotRaised("AttributeError")
    /\ getattr(mapping, "humidity") = GotValue(mapping["humidity"])

(***************************************************************************)
(* The claim about the executor's state across calls (SpecQuery).          *)
(***************************************************************************)
\* C22: a call of query leaves the executor's headers, timeout and session
\* reference as they were, whatever the outcome, and a session the caller
\* supplied is the one every request goes through and is not closed by it.
C22_ExecutorUnchanged ==
    [][ /\ client' = client
        /\ \A i \in DOMAIN requests' :
              /\ requests'[i].headers = client._headers
              /\ requests'[i].timeout = client._timeout
              /\ client._session # "None" =>
                    requests'[i].session = client._session /\ ~requests'[i].closed ]_vars

C22_Witness ==
    /\ QueryCalled
    /\ client._session = "supplied"
    /\ outcome.kind = "raise"
    /\ requests[1].session = "supplied"
    /\ ~requests[1].closed

(***************************************************************************)
(* The claim about the records of a list-returning call (SpecAir).         *)
(***************************************************************************)
ListReturned == AirCalled /\ airCall.op \in ListOps /\ airResult.kind = "return"
\* the comp/value entries a row has under key k, none when k is absent
EntriesOf(row, k) ==
    IF k \notin row.keys THEN <<>> ELSE IF k = "sensors" THEN row.sensors ELSE row.indices
\* mapping m holds entries, each under its alias-normalised name
Carries(m, entries) ==
    /\ DOMAIN m = { AliasOf(entries[j][1]) : j \in 1..Len(entries) }
    /\ \A j \in 1..Len(entries) : m[AliasOf(entries[j][1])] = entries[j][2]

\* C23: a list-returning call that returns gives one record per row of the
\* extracted data array, in the array's order: record i has row i's
\* timestamp and score and holds row i's sensors and indices; an empty
\* array gives the empty list.
C23_RecordPerRow ==
    ListReturned =>
        LET rows == extract_airdata(airCall.device, resp.json).rows
        IN  /\ airCall.device.variant = "cloud" =>
                  rows = (IF "data" \in resp.json.keys THEN resp.json.data ELSE <<>>)
            /\ Len(airResult.value) = Len(rows)
            /\ \A i \in 1..Len(rows) :
                  /\ airResult.value[i].timestamp = strptime(rows[i].timestamp)
                  /\ airResult.value[i].score = rows[i].score
                  /\ Carries(airResult.value[i].sensors, EntriesOf(rows[i], "sensors"))
                  /\ Carries(airResult.value[i].indices, EntriesOf(rows[i], "indices"))

C23_Witness ==
    /\ ListReturned
    /\ airCall.device.variant = "cloud"
    /\ resp.json.data = <<Row2, Row1>>
    /\ Len(airResult.value) = 2
    /\ airResult.value[1].score = Row2.score
    /\ airResult.value[2].indices # EmptyDict

C23_WitnessEmpty ==
    ListReturned /\ airCall.device.variant = "cloud" /\ resp.json.data = <<>> /\ airResult.value = <<>>

(***************************************************************************)
(* The claim about an omitted from_date or to_date (SpecAir).              *)
(***************************************************************************)
\* the call gave date keyword k, a datetime, and no other keyword
OnlyDate(k) ==
    /\ AirCalled
    /\ airCall.op \in ListOps
    /\ DOMAIN airCall.kwargs = {k}
    /\ airCall.kwargs[k].t = "datetime"
InWindow(date) ==
    /\ airCall.right_now - SpecMaxWindow(airCall.op) <= date.n
    /\ date.n <= airCall.right_now

\* C24: the omitted date is taken as now for to_date and as now minus the
\* kind's largest window for from_date: a call giving only from_date, or
\* only to_date, is accepted exactly when the date given lies between
\* now minus the largest window and now, both ends included.
C24_DefaultDates ==
    \A k \in {"from_date", "to_date"} :
        OnlyDate(k) => (Accepted <=> InWindow(airCall.kwargs[k]))

C24_Witness ==
    /\ OnlyDate("from_date")
    /\ airCall.op = "air_data_five_minute"
    /\ airCall.kwargs["from_date"] = PyDate(airCall.right_now - 24 * 60)
    /\ Accepted

C24_WitnessToDate ==
    /\ OnlyDate("to_date")
    /\ airCall.op = "air_data_raw"
    /\ airCall.kwargs["to_date"] = PyDate(airCall.right_now - 61)
    /\ ~Accepted
    /\ RaisedValidation

(***************************************************************************)
(* The claim about the uuid of a local device (SpecLocal).                 *)
(***************************************************************************)
\* the device_uuid of the config object that answered query i
UuidOf(i) == DictOf(ReplyOf(localReplies, i).body.obj)["device_uuid"]
\* every query was answered with a config object and the devices were built from them
LocalBuilt ==
    /\ localCall.phase = "done"
    /\ \A i \in 1..Len(localCall.addrs) :
          Replied(localReplies, i) /\ ReplyOf(localReplies, i).kind = "return"
\* the parts of a text before and after its first underscore
FirstUnderscore(text) ==
    CHOOSE i \in 1..Len(text) : text[i] = "_" /\ \A j \in 1..(i - 1) : text[j] # "_"
PartBefore(text) == SubSeq(text, 1, FirstUnderscore(text) - 1)
PartAfter(text) == SubSeq(text, FirstUnderscore(text) + 1, Len(text))
\* uuid is device_type, an underscore and device_id in decimal
TypeAndId(device) ==
    Concat(device.uuid) = Concat(<<device.device_type, "_", ToString(device.device_id)>>)
\* text is the decimal rendering of the integer it parses to
Canonical(text) == int(text).ok /\ text = <<ToString(int(text).n)>>
\* what every local device built has, whatever the form of its device_uuid
BuiltFrom(device, uuid) ==
    /\ device.uuid = uuid
    /\ device.device_type = Concat(PartBefore(uuid))
    /\ device.device_id = int(PartAfter(uuid)).n
BuildsOrFails ==
    LocalBuilt =>
        (localResult.kind = "raise"
            <=> \E i \in 1..Len(localCall.addrs) : ~int(PartAfter(UuidOf(i))).ok)

\* C25 as stated: every local device built has the uuid of its config
\* object, which is its device_type, an underscore and its device_id in
\* decimal; a device_uuid whose part after the first underscore is not an
\* integer makes the construction fail.
C25_UuidForm ==
    /\ BuildsOrFails
    /\ LocalReturned =>
          \A i \in 1..Len(localCall.addrs) :
              /\ BuiltFrom(localResult.devices[i], UuidOf(i))
              /\ TypeAndId(localResult.devices[i])

\* C25 as amended: the uuid is the config object's device_uuid, device_type
\* its part before the first underscore and device_id the integer int()
\* parses from the rest; the uuid is device_type, underscore, device_id in
\* decimal exactly when the rest is that integer's decimal rendering.
C25_UuidFormOfCanonical ==
    /\ BuildsOrFails
    /\ LocalReturned =>
          \A i \in 1..Len(localCall.addrs) :
              /\ BuiltFrom(localResult.devices[i], UuidOf(i))
              /\ TypeAndId(localResult.devices[i]) <=> Canonical(PartAfter(UuidOf(i)))

C25_Witness ==
    /\ LocalReturned
    /\ Len(localCall.addrs) = 2
    /\ UuidOf(1) = <<"awair-element", "_", "5366">>
    /\ TypeAndId(localResult.devices[1])
    /\ UuidOf(2) = <<"awair-omni", "_", "007">>
    /\ localResult.devices[2].device_id = 7
    /\ ~TypeAndId(localResult.devices[2])

C25_WitnessFails ==
    /\ LocalBuilt
    /\ localResult = UserRaised("ValueError")
    /\ \E i \in 1..Len(localCall.addrs) : UuidOf(i) = <<"awair-omni", "_", "abc">>

(***************************************************************************)
(* The claims about the errors array of a 200 response (SpecQuery).        *)
(***************************************************************************)
\* the query was answered 200 with a non-empty errors array
ErrorsAnswered == QueryCalled /\ resp.status = 200 /\ ErrorsOf(resp.json) # <<>>
AllHaveMessage(errors) == \A i \in 1..Len(errors) : errors[i].has

\* C26: when every entry of a non-empty errors array has a message, the
\* query raises RatelimitError if some entry's message, at whatever
\* position, contains "Too many requests", and GenericError if none does.
C26_RatelimitAnywhere ==
    (ErrorsAnswered /\ AllHaveMessage(ErrorsOf(resp.json))) =>
        /\ outcome.kind = "raise"
        /\ outcome.exc =
              (IF \E i \in 1..Len(ErrorsOf(resp.json)) :
                      Contains(TooManyRequests, ErrorsOf(resp.json)[i].message)
               THEN "RatelimitError" ELSE "GenericError")

C26_Witness ==
    /\ ErrorsAnswered
    /\ resp.json.errors = << [has |-> TRUE, message |-> <<"boom">>],
                             [has |-> TRUE, message |-> <<"Error", "Too", "many", "requests">>] >>
    /\ outcome = Raised("RatelimitError", <<>>)

\* C27: a non-empty errors array always makes the query raise
\* RatelimitError or GenericError, also when an entry has no message: the
\* entry is reported as "Unknown error" and no other exception is raised.
C27_NoMessageIsUnknownError ==
    ErrorsAnswered =>
        /\ outcome.kind = "raise"
        /\ outcome.exc \in {"RatelimitError", "GenericError"}

C27_Witness ==
    /\ ErrorsAnswered
    /\ resp.json.errors = << [has |-> FALSE, message |-> <<>>] >>
    /\ outcome = Raised("KeyError", <<>>)

(***************************************************************************)
(* The claim about the query string of a cloud request (SpecAir).          *)
(***************************************************************************)
CloudListSent ==
    AirCalled /\ airCall.device.variant = "cloud" /\ airCall.op \in ListOps /\ Accepted
KindOf(op) ==
    IF op = "air_data_raw" THEN "raw"
    ELSE IF op = "air_data_fifteen_minute" THEN "15-min-avg"
    ELSE "5-min-avg"

\* C28: the request of a cloud list call names exactly the keyword
\* parameters the caller gave, each once: a date the caller left out is not
\* sent, and a call without keyword parameters requests the bare
\* air-data URL of its kind, without a question mark.
C28_OnlySuppliedParams ==
    CloudListSent =>
        /\ Len(sent) = 1
        /\ sent[1].path =
              get_airdata_base_url(airCall.device) \o <<"air-data", KindOf(airCall.op)>>
        /\ DOMAIN SentParams = DOMAIN airCall.kwargs
        /\ sent[1].mark = (IF DOMAIN airCall.kwargs = {} THEN "" ELSE "?")

C28_Witness ==
    /\ CloudListSent
    /\ DOMAIN airCall.kwargs = {"from_date"}
    /\ DOMAIN SentParams = {"from_date"}
    /\ sent[1].mark = "?"

C28_WitnessBare ==
    /\ CloudListSent
    /\ airCall.kwargs = EmptyDict
    /\ sent[1] = Url(get_airdata_base_url(CloudDevice) \o <<"air-data", "raw">>, "", EmptyDict)

(***************************************************************************)
(* The claim about the number of records of a local device (SpecAir).      *)
(***************************************************************************)
\* C29: an air-data call of a local device that does not raise returns
\* exactly one record: the list calls return a list of one record, and
\* air_data_latest returns a record, never None.
C29_LocalOneRecord ==
    (LocalCalled /\ airResult.kind # "raise") =>
        /\ airResult.kind = "return"
        /\ Len(airResult.value) = 1
        /\ airResult.shape = (IF airCall.op = "air_data_latest" THEN "record" ELSE "list")

C29_Witness ==
    /\ LocalCalled
    /\ airCall.op = "air_data_latest"
    /\ airResult.kind = "return"
    /\ airResult.shape = "record"
    /\ Len(airResult.value) = 1

C29_WitnessList ==
    /\ LocalCalled
    /\ airCall.op = "air_data_raw"
    /\ airResult.kind = "return"
    /\ Len(airResult.value) = 1

(***************************************************************************)
(* The claim about a raw key given together with its alias (SpecAttr).     *)
(***************************************************************************)
\* the raw keys of the table that items hold together with their alias
GivenWithAlias(items) ==
    { k \in RawKeys : k \in KeysOf(items) /\ SENSOR_TO_ALIAS[k] \in KeysOf(items) }

\* C30: when the constructor's mapping holds a raw key of the alias table
\* and that key's alias, the result has one entry for the two, under the
\* alias and with the raw key's value, whichever came first; the result
\* never has more keys than the mapping given, and the mapping given is
\* left as it was.
C30_RawAndAlias ==
    JustBuilt =>
        /\ \A k \in GivenWithAlias(lastOp.given) :
              /\ k \notin DOMAIN mapping
              /\ SENSOR_TO_ALIAS[k] \in DOMAIN mapping
              /\ mapping[SENSOR_TO_ALIAS[k]] = ValueAt(lastOp.given, k)
        /\ Cardinality(DOMAIN mapping) <= Cardinality(KeysOf(lastOp.given))
        /\ Cardinality(DOMAIN mapping) =
              Cardinality(KeysOf(lastOp.given)) - Cardinality(GivenWithAlias(lastOp.given))
        /\ lastOp.attrs = lastOp.given

C30_Witness ==
    /\ JustBuilt
    /\ lastOp.given = << <<"temp", 1>>, <<"temperature", 2>> >>
    /\ lastOp.attrs = lastOp.given
    /\ mapping = [k \in {"temperature"} |-> 1]

====
